---- MODULE Spec2Model ----
(***************************************************************************)
(* QuickLaunch supervisor (src/server.js, second revision, lines 135-2973):*)
(* the process table, the restart tracker, the start / stop / exit         *)
(* handlers and the scheduler's executions, and the port registry of       *)
(* apps.json.  Time is counted in whole seconds.                           *)
(***************************************************************************)
EXTENDS Integers, Sequences, FiniteSets, Bags, TLC

\* ------------------------------------------------------------------ bounds
MaxTime == 12
MaxProcs == 2
LoopMaxTime == 75
LoopMaxProcs == 4
MaxApps == 3
SchedMaxProcs == 2
SchedMaxTime == 5
MaxLog == 6
MaxResolutions == 1
DiagMaxDays == 8

MaxTriage == 2

\* ------------------------------------------------------- program constants
StartupCrashSecs == 5
RestartDelaySecs == 2
PortFreeWaitSecs == 1
StabilitySecs == 60
CooldownSecs == 300
DefaultMaxRestartAttempts == 3
PortLimit == 65535
SystemPort == 8000
\* exit codes are written as decimal strings: 3221225786 (0xC000013A) is
\* beyond the integers of the model checker
CleanExit == "0"
CtrlCExit == "3221225786"
LogoffExit == "1073807364"
CrashExit == "1"

\* ------------------------------------------------------------ input sets
AppIds == {"a"}
ExitCodes == {CleanExit, CrashExit, CtrlCExit, LogoffExit}
StartConfigs == {[autoRestart |-> FALSE, maxRestartAttempts |-> 0],
                 [autoRestart |-> TRUE, maxRestartAttempts |-> 1]}
TickSteps == {StartupCrashSecs}

VARIABLES now, runningProcesses, restartTracker, children, inflight,
          pendingRestarts, stabilityTimers, nextPid, hist,
          config, resp,
          scheduledJobs, scheduleState,
          logFile, resolutionsFile, todoFile, appsFile,
          ongoingInstalls, installTimers

schedVars == <<scheduledJobs, scheduleState>>
lifeVars == <<now, runningProcesses, restartTracker, children, inflight,
              pendingRestarts, stabilityTimers, nextPid, hist, schedVars>>
cfgVars == <<config, resp>>
installVars == <<ongoingInstalls, installTimers>>
diagVars == <<logFile, resolutionsFile, todoFile, appsFile, installVars>>
vars == <<now, runningProcesses, restartTracker, children, inflight,
          pendingRestarts, stabilityTimers, nextPid, hist,
          config, resp, scheduledJobs, scheduleState,
          logFile, resolutionsFile, todoFile, appsFile,
          ongoingInstalls, installTimers>>

\* ------------------------------------------------------------ Map helpers
Has(m, k) == k \in DOMAIN m

Put(m, k, v) == [x \in (DOMAIN m) \cup {k} |-> IF x = k THEN v ELSE m[x]]

Del(m, k) == [x \in (DOMAIN m) \ {k} |-> m[x]]

EmptyMap == [x \in {} |-> 0]

\* the composite key of a scheduled execution
processKey_always_id(appConfig) == appConfig.id

processKey(appConfig) ==
  IF appConfig.scheduleCommand THEN appConfig.id \o ":sync" ELSE appConfig.id

Keys == AppIds \cup {id \o ":sync" : id \in AppIds}

\* ------------------------------------------------------------ exit codes
isNormalExit_only_zero(exitCode) == exitCode = CleanExit

NORMAL_EXIT_CODES == {CleanExit, CtrlCExit, LogoffExit}

isNormalExit(exitCode) == exitCode \in NORMAL_EXIT_CODES

\* ------------------------------------------------------- restart tracker
NoTracker == [attempts |-> 0, lastAttempt |-> 0, cooldownUntil |-> 0]

maxAttemptsOf(appConfig) ==
  IF appConfig.maxRestartAttempts = 0 THEN DefaultMaxRestartAttempts
  ELSE appConfig.maxRestartAttempts

trackerOf(appId) ==
  IF Has(restartTracker, appId) THEN restartTracker[appId] ELSE NoTracker

shouldAutoRestart(appId, appConfig) ==
  IF ~appConfig.autoRestart THEN FALSE
  ELSE IF now < trackerOf(appId).cooldownUntil THEN FALSE
  ELSE IF trackerOf(appId).attempts >= maxAttemptsOf(appConfig) THEN FALSE
  ELSE TRUE

recordRestartAttempt(appId, appConfig) ==
  LET t == trackerOf(appId)
      n == t.attempts + 1
  IN [attempts |-> n,
      lastAttempt |-> now,
      cooldownUntil |-> IF n >= maxAttemptsOf(appConfig)
                        THEN now + CooldownSecs ELSE t.cooldownUntil]

\* ------------------------------------------------------------ histories
\* per app id: the number of autoRestartApp calls, and the time of the last
\* attempt that brought the tracker to maxRestartAttempts (-1: none)
NoHist == [restarts |-> 0, blockedAt |-> -1]

\* ------------------------------------------------------------------ Init
InitTable ==
  /\ runningProcesses = EmptyMap
  /\ restartTracker = EmptyMap
  /\ children = {}
  /\ inflight = {}
  /\ pendingRestarts = {}
  /\ stabilityTimers = {}
  /\ nextPid = 1
  /\ hist = [k \in AppIds |-> NoHist]

InitLife ==
  /\ now = 0
  /\ InitTable

\* an app's schedule: none, a daily time ("HH:MM" or "M H * * *"), or another
\* cron expression such as "*/30 * * * *"
NoSchedule == [kind |-> "none", hour |-> 0, minute |-> 0]

OtherCron == [kind |-> "other", hour |-> 0, minute |-> 0]

Daily(hour, minute) == [kind |-> "daily", hour |-> hour, minute |-> minute]

\* the bytes of apps.json are followed by the store model only; elsewhere
\* config is the document the file holds
NoAppsFile == [text |-> << >>, pending |-> << >>]

InitInstalls ==
  /\ ongoingInstalls = [x \in {} |-> 0]
  /\ installTimers = {}

\* troubleshooting log, resolutions log and TODO.md as found at startup
InitDiagEmpty ==
  /\ logFile = EmptyBag
  /\ resolutionsFile = << >>
  /\ todoFile = << >>
  /\ appsFile = NoAppsFile
  /\ InitInstalls

\* ------------------------------------------------- POST /api/start handler
NewEntry(pid, status, isSync, appConfig) ==
  [process |-> pid, status |-> status, startTime |-> now, exitCode |-> "",
   isSyncProcess |-> isSync, isManual |-> FALSE, appConfig |-> appConfig]

\* a spawned child with what the closures of its observers hold
NewChild(pid, kind, key, appConfig) ==
  [pid |-> pid, kind |-> kind, key |-> key, appConfig |-> appConfig,
   appId |-> key, isManual |-> FALSE, stopped |-> FALSE]

\* request accepted up to the first await (the port probe)
StartAccept(id, startConfig, retry) ==
  /\ IF Has(runningProcesses, id) /\ runningProcesses[id].status = "running"
     THEN UNCHANGED <<runningProcesses, inflight>>
     ELSE /\ runningProcesses' = Del(runningProcesses, id)
          /\ inflight' = inflight \cup
               {[pc |-> "probe", id |-> id, pid |-> 0,
                 appConfig |-> startConfig, retry |-> retry]}
  /\ UNCHANGED <<now, restartTracker, children, pendingRestarts,
                 stabilityTimers, nextPid, hist, cfgVars,
                 schedVars, diagVars>>

StartRequest(id, startConfig) == StartAccept(id, startConfig, FALSE)

\* port probe answered; preflight, spawn and insertion of the entry
StartSpawn(r, preflightOk) ==
  /\ r \in inflight /\ r.pc = "probe"
  /\ IF ~preflightOk
     THEN /\ inflight' = inflight \ {r}
          /\ UNCHANGED <<runningProcesses, children, nextPid, hist>>
     ELSE /\ children' = children \cup
               {NewChild(nextPid, "start", r.id, r.appConfig)}
          /\ runningProcesses' =
               Put(runningProcesses, r.id,
                   NewEntry(nextPid, "starting", FALSE, r.appConfig))
          /\ nextPid' = nextPid + 1
          /\ inflight' = (inflight \ {r}) \cup
               {[r EXCEPT !.pc = "settle", !.pid = nextPid]}
          /\ UNCHANGED hist
  /\ UNCHANGED <<now, restartTracker, pendingRestarts, stabilityTimers,
                 schedVars, diagVars>>

StartPreflight(r, preflightOk) ==
  StartSpawn(r, preflightOk) /\ UNCHANGED cfgVars

\* after the 500 ms wait: an entry already failed ends the request
StartSettle(r) ==
  /\ r \in inflight /\ r.pc = "settle"
  /\ IF Has(runningProcesses, r.id) /\ runningProcesses[r.id].status = "failed"
     THEN inflight' = inflight \ {r}
     ELSE inflight' = (inflight \ {r}) \cup {[r EXCEPT !.pc = "poll"]}
  /\ UNCHANGED <<now, runningProcesses, restartTracker, children,
                 pendingRestarts, stabilityTimers, nextPid, hist,
                 cfgVars, schedVars, diagVars>>

pollBlocks(status) == status \in {"failed", "stopped"}

\* the answer of the start request once waitForHealthy has returned
startPollResponse(id, healthy) ==
  IF Has(runningProcesses, id) /\ pollBlocks(runningProcesses[id].status)
  THEN [http |-> 500, success |-> FALSE, status |-> "none",
        warning |-> FALSE]
  ELSE IF healthy
       THEN [http |-> 200, success |-> TRUE, status |-> "running",
             warning |-> FALSE]
       ELSE [http |-> 200, success |-> TRUE, status |-> "starting",
             warning |-> TRUE]

\* a poll that marks the entry failed when it times out
StartPollDone_timeout_fails(r, healthy) ==
  /\ r \in inflight /\ r.pc = "poll"
  /\ inflight' = inflight \ {r}
  /\ IF Has(runningProcesses, r.id)
        /\ ~pollBlocks(runningProcesses[r.id].status)
     THEN runningProcesses' =
            [runningProcesses EXCEPT
               ![r.id].status = IF healthy THEN "running" ELSE "failed"]
     ELSE UNCHANGED runningProcesses
  /\ UNCHANGED <<now, restartTracker, children, pendingRestarts,
                 stabilityTimers, nextPid, hist, cfgVars,
                 schedVars, diagVars>>

\* waitForHealthy returned
StartPollDone(r, healthy) ==
  /\ r \in inflight /\ r.pc = "poll"
  /\ inflight' = inflight \ {r}
  /\ IF Has(runningProcesses, r.id)
        /\ ~pollBlocks(runningProcesses[r.id].status)
        /\ healthy
     THEN runningProcesses' =
            [runningProcesses EXCEPT ![r.id].status = "running"]
     ELSE UNCHANGED runningProcesses
  /\ UNCHANGED <<now, restartTracker, children, pendingRestarts,
                 stabilityTimers, nextPid, hist, cfgVars,
                 schedVars, diagVars>>

\* stdout observer of a child spawned by POST /api/start
StdoutMarker(c) ==
  /\ c \in children /\ c.kind = "start" /\ ~c.stopped
  /\ Has(runningProcesses, c.key)
  /\ runningProcesses' = [runningProcesses EXCEPT ![c.key].status = "running"]
  /\ UNCHANGED <<now, restartTracker, children, inflight, pendingRestarts,
                 stabilityTimers, nextPid, hist, cfgVars,
                 schedVars, diagVars>>

\* a spawn failure is reported right after the spawn, before anything else
\* of that child
JustSpawned(c) ==
  IF c.kind = "start"
  THEN \E r \in inflight : r.pc = "settle" /\ r.pid = c.pid
  ELSE /\ Has(runningProcesses, c.key)
       /\ runningProcesses[c.key].process = c.pid
       /\ runningProcesses[c.key].startTime = now
       /\ runningProcesses[c.key].status \in {"starting", "running"}

\* 'error' observer: the spawn failed, no exit event follows
SpawnError(c) ==
  /\ c \in children /\ JustSpawned(c) /\ ~c.stopped
  /\ children' = children \ {c}
  /\ IF c.kind = "start" /\ Has(runningProcesses, c.key)
     THEN runningProcesses' =
            [runningProcesses EXCEPT ![c.key].status = "failed"]
     ELSE UNCHANGED runningProcesses
  /\ UNCHANGED <<now, restartTracker, inflight, pendingRestarts,
                 stabilityTimers, nextPid, hist, cfgVars,
                 schedVars, diagVars>>


\* ----------------------------------------------------- handleProcessExit
runtimeCrash(runTime) == runTime > StartupCrashSecs

startupCrash(runTime) == runTime < StartupCrashSecs

\* the status handleProcessExit leaves in the entry
exitStatus(appId, exitCode, appConfig, runTime) ==
  IF ~isNormalExit(exitCode) /\ runtimeCrash(runTime) /\ appConfig.autoRestart
  THEN IF shouldAutoRestart(appId, appConfig) THEN "restarting" ELSE "failed"
  ELSE IF ~isNormalExit(exitCode) /\ startupCrash(runTime) THEN "failed"
  ELSE "stopped"

\* table, tracker and restart decision after handleProcessExit; the
\* synchronous head of autoRestartApp (recordRestartAttempt) is included
handleProcessExit(appId, exitCode, appConfig) ==
  IF ~Has(runningProcesses, appId)
  THEN [table |-> runningProcesses, tracker |-> restartTracker,
        restart |-> FALSE]
  ELSE LET info == runningProcesses[appId]
           status == exitStatus(appId, exitCode, appConfig,
                                now - info.startTime)
       IN [table |-> Put(runningProcesses, appId,
                         [info EXCEPT !.status = status,
                                      !.exitCode = exitCode]),
           tracker |-> IF status = "restarting"
                       THEN Put(restartTracker, appId,
                                recordRestartAttempt(appId, appConfig))
                       ELSE restartTracker,
           restart |-> status = "restarting"]

\* exit observer of a scheduled / manual execution
scheduledExit(key, exitCode) ==
  IF ~Has(runningProcesses, key)
  THEN runningProcesses
  ELSE [runningProcesses EXCEPT
          ![key].status = IF exitCode = CleanExit THEN "completed" ELSE "failed",
          ![key].exitCode = exitCode]

recordLastRun_scheduled(state, appId, exitCode, isManual) ==
  Put(state, appId,
      [lastRun |-> now, lastExitCode |-> exitCode, wasManual |-> FALSE])

\* lines 453-458 of the scheduled exit observer: the schedule state file is
\* loaded, the app's record rewritten and the file saved
recordLastRun(state, appId, exitCode, isManual) ==
  Put(state, appId,
      [lastRun |-> now, lastExitCode |-> exitCode, wasManual |-> isManual])

\* 'exit' event of a child: the observer installed at its spawn runs
ChildExit(c, exitCode) ==
  /\ c \in children
  /\ children' = children \ {c}
  /\ scheduleState' =
       IF c.kind = "sched"
       THEN recordLastRun(scheduleState, c.appId, exitCode, c.isManual)
       ELSE scheduleState
  /\ LET r == IF c.kind = "sched"
              THEN [table |-> scheduledExit(c.key, exitCode),
                    tracker |-> restartTracker, restart |-> FALSE]
              ELSE handleProcessExit(c.key, exitCode, c.appConfig)
     IN /\ runningProcesses' = r.table
        /\ restartTracker' = r.tracker
        /\ pendingRestarts' =
             IF r.restart
             THEN pendingRestarts \cup
                    {[appId |-> c.key, appConfig |-> c.appConfig,
                      due |-> now + RestartDelaySecs, stage |-> "delay"]}
             ELSE pendingRestarts
        /\ hist' = IF r.restart
                   THEN [hist EXCEPT
                          ![c.key].restarts = @ + 1,
                          ![c.key].blockedAt =
                            IF r.tracker[c.key].attempts
                                 >= maxAttemptsOf(c.appConfig)
                            THEN now ELSE @]
                   ELSE hist
  /\ UNCHANGED <<now, inflight, stabilityTimers, nextPid, cfgVars,
                 scheduledJobs, diagVars>>

\* ----------------------------------------------------------- autoRestartApp
\* after the 2 s delay: port probe; a busy port is freed and 1 s waited
RestartProbe(p, portInUse) ==
  /\ p \in pendingRestarts /\ p.stage = "delay" /\ p.due <= now
  /\ pendingRestarts' = (pendingRestarts \ {p}) \cup
       {[p EXCEPT !.stage = "spawn",
                  !.due = IF portInUse THEN now + PortFreeWaitSecs ELSE now]}
  /\ UNCHANGED <<now, runningProcesses, restartTracker, children, inflight,
                 stabilityTimers, nextPid, hist, cfgVars,
                 schedVars, diagVars>>

\* a restart that takes the port the config document holds for the app now
RestartSpawn_reads_document(p) ==
  LET docPorts == {config.apps[i].port :
                     i \in {j \in DOMAIN config.apps :
                              config.apps[j].id = p.appId}}
      appConfig == IF docPorts = {} THEN p.appConfig
                   ELSE [p.appConfig EXCEPT
                           !.port = CHOOSE port \in docPorts : TRUE]
  IN /\ p \in pendingRestarts /\ p.stage = "spawn" /\ p.due <= now
     /\ pendingRestarts' = pendingRestarts \ {p}
     /\ children' = children \cup
          {NewChild(nextPid, "restart", p.appId, appConfig)}
     /\ runningProcesses' =
          Put(runningProcesses, p.appId,
              NewEntry(nextPid, "starting", FALSE, appConfig))
     /\ nextPid' = nextPid + 1
     /\ stabilityTimers' = stabilityTimers \cup
          {[appId |-> p.appId, due |-> now + StabilitySecs]}
     /\ UNCHANGED <<now, restartTracker, inflight, hist, cfgVars,
                    schedVars, diagVars>>

\* the stability timer looks the entry up by key when it fires
RestartSpawn(p) ==
  /\ p \in pendingRestarts /\ p.stage = "spawn" /\ p.due <= now
  /\ pendingRestarts' = pendingRestarts \ {p}
  /\ children' = children \cup
       {NewChild(nextPid, "restart", p.appId, p.appConfig)}
  /\ runningProcesses' =
       Put(runningProcesses, p.appId,
           NewEntry(nextPid, "starting", FALSE, p.appConfig))
  /\ nextPid' = nextPid + 1
  /\ stabilityTimers' = stabilityTimers \cup
       {[appId |-> p.appId, due |-> now + StabilitySecs]}
  /\ UNCHANGED <<now, restartTracker, inflight, hist, cfgVars,
                 schedVars, diagVars>>

resetRestartCounter(appId) == Del(restartTracker, appId)

StabilityTimer(t) ==
  /\ t \in stabilityTimers /\ t.due <= now
  /\ stabilityTimers' = stabilityTimers \ {t}
  /\ IF Has(runningProcesses, t.appId)
        /\ runningProcesses[t.appId].status \in {"running", "starting"}
     THEN restartTracker' = resetRestartCounter(t.appId)
     ELSE UNCHANGED restartTracker
  /\ UNCHANGED <<now, runningProcesses, children, inflight, pendingRestarts,
                 nextPid, hist, cfgVars,
                 schedVars, diagVars>>

\* -------------------------------------------------------- POST /api/stop
\* the entry is deleted, then the process tree of its pid is killed; the
\* kill may fail, and the exit event of a killed child arrives later
\* the 400 answer "App is not running"
stopRejected(id) == ~Has(runningProcesses, id)

Stop(id, killOk) ==
  IF stopRejected(id) THEN UNCHANGED vars
  ELSE /\ runningProcesses' = Del(runningProcesses, id)
       /\ children' =
            {IF c.pid = runningProcesses[id].process /\ killOk
             THEN [c EXCEPT !.stopped = TRUE] ELSE c : c \in children}
       /\ UNCHANGED <<now, restartTracker, inflight, pendingRestarts,
                      stabilityTimers, nextPid, hist, cfgVars,
                      schedVars, diagVars>>

\* ------------------------------------------------------ executeScheduledApp
SyncConfig == [autoRestart |-> FALSE, maxRestartAttempts |-> 0]

AppsOf(cfg) == {cfg.apps[i] : i \in DOMAIN cfg.apps}

\* spawn, observers and table entry of executeScheduledApp, on the process
\* state st = [children, table, pid]
scheduledSpawn(st, appConfig, isManual) ==
  [children |-> st.children \cup
       {[NewChild(st.pid, "sched", processKey(appConfig), SyncConfig)
           EXCEPT !.appId = appConfig.id, !.isManual = isManual]},
   table |-> Put(st.table, processKey(appConfig),
                 [NewEntry(st.pid, "running", TRUE, SyncConfig)
                    EXCEPT !.isManual = isManual]),
   pid |-> st.pid + 1]

ProcState == [children |-> children, table |-> runningProcesses,
              pid |-> nextPid]

executeScheduledApp(appConfig, isManual) ==
  /\ children' = scheduledSpawn(ProcState, appConfig, isManual).children
  /\ runningProcesses' = scheduledSpawn(ProcState, appConfig, isManual).table
  /\ nextPid' = scheduledSpawn(ProcState, appConfig, isManual).pid
  /\ UNCHANGED <<now, restartTracker, inflight, pendingRestarts,
                 stabilityTimers, hist, cfgVars,
                 schedVars, diagVars>>

\* the cron job set up for an app fires
CronFire(appConfig) ==
  /\ Has(scheduledJobs, appConfig.id)
  /\ scheduledJobs[appConfig.id] = appConfig
  /\ executeScheduledApp(appConfig, FALSE)

\* the two 400 answers of POST /api/schedule/:id/run
manualRunRejected_enabled_only(appConfig) == ~appConfig.scheduleEnabled

manualRunRejected(appConfig) ==
  \/ ~appConfig.scheduleEnabled
  \/ /\ Has(runningProcesses, processKey(appConfig))
     /\ runningProcesses[processKey(appConfig)].status = "running"

\* POST /api/schedule/:id/run for an app of the config
ManualRun(appConfig) ==
  /\ appConfig \in AppsOf(config)
  /\ IF manualRunRejected(appConfig)
     THEN UNCHANGED vars
     ELSE executeScheduledApp(appConfig, TRUE)

\* ------------------------------------------------------------------- time
Dues == {p.due : p \in pendingRestarts} \cup {t.due : t \in stabilityTimers}

\* time passes; a due timer or delayed continuation runs before time moves on
Tick(d, limit) ==
  /\ d > 0
  /\ now + d <= limit
  /\ \A x \in Dues : now + d <= x
  /\ now' = now + d
  /\ UNCHANGED <<runningProcesses, restartTracker, children, inflight,
                 pendingRestarts, stabilityTimers, nextPid, hist, cfgVars,
                 schedVars, diagVars>>

NextDue == CHOOSE x \in Dues : \A y \in Dues : x <= y

CanSpawn == nextPid <= MaxProcs

\* a request is taken only while a process is left for it to spawn
CanAccept == nextPid + Cardinality(inflight) <= MaxProcs

Next ==
  \/ \E id \in AppIds, sc \in StartConfigs :
       CanAccept /\ StartRequest(id, sc)
  \/ \E r \in inflight, ok \in BOOLEAN :
       (ok => CanSpawn) /\ StartPreflight(r, ok)
  \/ \E r \in inflight : StartSettle(r)
  \/ \E r \in inflight, healthy \in BOOLEAN : StartPollDone(r, healthy)
  \/ \E c \in children : StdoutMarker(c)
  \/ \E c \in children : SpawnError(c)
  \/ \E c \in children, code \in ExitCodes : ChildExit(c, code)
  \/ \E p \in pendingRestarts, busy \in BOOLEAN : RestartProbe(p, busy)
  \/ \E p \in pendingRestarts : CanSpawn /\ RestartSpawn(p)
  \/ \E t \in stabilityTimers : StabilityTimer(t)
  \/ \E id \in Keys, killOk \in BOOLEAN : Stop(id, killOk)
  \/ \E d \in TickSteps : Tick(d, MaxTime)
  \/ Dues # {} /\ Tick(NextDue - now, NextDue)

\* the documents the supervisor is started with: one app, with or without a
\* scheduleCommand, its schedule enabled or not; the scheduler's executions
\* are left to SpecSched
LifeConfigs ==
  {[reservedPorts |-> {SystemPort},
    apps |-> <<[id |-> id, port |-> 5173, scheduleCommand |-> sc,
                scheduleEnabled |-> se, schedule |-> Daily(12, 0),
                runIfMissed |-> FALSE]>>] :
     id \in AppIds, sc \in BOOLEAN, se \in BOOLEAN}

\* the jobs initializeScheduledJobs has set up: per app id, the appConfig
\* the job's callback holds
JobsOf(cfg) ==
  LET scheduled == {x \in AppsOf(cfg) :
                      x.schedule.kind # "none" /\ x.scheduleEnabled}
  IN [id \in {a.id : a \in scheduled} |->
        CHOOSE a \in scheduled : a.id = id]

Init ==
  /\ InitLife
  /\ config \in LifeConfigs
  /\ resp = [op |-> "none"]
  /\ scheduledJobs = JobsOf(config)
  /\ scheduleState = EmptyMap
  /\ InitDiagEmpty

Spec == Init /\ [][Next]_vars

\* ------------------------------------------------------------- scheduler
\* Interactive starts together with scheduled and manual executions.
SchedStartConfigs == {[autoRestart |-> FALSE, maxRestartAttempts |-> 0]}

SchedCanSpawn == nextPid <= SchedMaxProcs

SchedCanAccept == nextPid + Cardinality(inflight) <= SchedMaxProcs

\* schedule-state.json as left by earlier runs of another app
OtherAppState ==
  [b |-> [lastRun |-> 0, lastExitCode |-> CleanExit, wasManual |-> FALSE]]

NextSched ==
  \/ \E id \in AppIds, sc \in SchedStartConfigs :
       SchedCanAccept /\ StartRequest(id, sc)
  \/ \E r \in inflight : SchedCanSpawn /\ StartPreflight(r, TRUE)
  \/ \E r \in inflight : StartSettle(r)
  \/ \E r \in inflight, healthy \in BOOLEAN : StartPollDone(r, healthy)
  \/ \E c \in children, code \in ExitCodes : ChildExit(c, code)
  \/ \E a \in AppsOf(config) : SchedCanSpawn /\ CronFire(a)
  \/ \E a \in AppsOf(config) :
       (manualRunRejected(a) \/ SchedCanSpawn) /\ ManualRun(a)
  \/ \E d \in TickSteps : Tick(d, SchedMaxTime)

InitSched ==
  /\ InitLife
  /\ config \in LifeConfigs
  /\ resp = [op |-> "none"]
  /\ scheduledJobs = JobsOf(config)
  /\ scheduleState = OtherAppState
  /\ InitDiagEmpty

SpecSched == InitSched /\ [][NextSched]_vars

\* the continuations of accepted start requests are run; nothing else of the
\* scheduler is left pending by the supervisor
SchedSystem ==
  \/ \E r \in inflight : SchedCanSpawn /\ StartPreflight(r, TRUE)
  \/ \E r \in inflight : StartSettle(r)
  \/ \E r \in inflight, healthy \in BOOLEAN : StartPollDone(r, healthy)

SpecSchedLive == SpecSched /\ WF_vars(SchedSystem)

\* --------------------------------------------------- supervisor startup
DaySecs == 24 * 60 * 60

HourSecs == 60 * 60

dateOf(t) == t \div DaySecs

getHours(t) == (t % DaySecs) \div HourSecs

getMinutes(t) == (t % HourSecs) \div 60

hasScheduleTimePassedToday(cronSchedule) ==
  IF cronSchedule.kind = "daily"
  THEN \/ getHours(now) > cronSchedule.hour
       \/ /\ getHours(now) = cronSchedule.hour
          /\ getMinutes(now) >= cronSchedule.minute
  ELSE FALSE

checkMissedSchedule_ignore_lastRun(appId, appConfig) ==
  IF appConfig.schedule.kind = "none" \/ ~appConfig.scheduleEnabled
  THEN FALSE
  ELSE IF ~appConfig.runIfMissed THEN FALSE
  ELSE hasScheduleTimePassedToday(appConfig.schedule)

checkMissedSchedule(appId, appConfig) ==
  IF appConfig.schedule.kind = "none" \/ ~appConfig.scheduleEnabled
  THEN FALSE
  ELSE IF ~appConfig.runIfMissed THEN FALSE
  ELSE IF ~Has(scheduleState, appId)
       THEN hasScheduleTimePassedToday(appConfig.schedule)
       ELSE IF dateOf(scheduleState[appId].lastRun) # dateOf(now)
            THEN hasScheduleTimePassedToday(appConfig.schedule)
            ELSE FALSE

\* the loop of initializeScheduledJobs over config.apps, from app i on
RECURSIVE bootLoop(_, _, _)
bootLoop(st, apps, i) ==
  IF i > Len(apps) THEN st
  ELSE IF apps[i].schedule.kind # "none" /\ apps[i].scheduleEnabled
          /\ checkMissedSchedule(apps[i].id, apps[i])
       THEN bootLoop(scheduledSpawn(st, apps[i], FALSE), apps, i + 1)
       ELSE bootLoop(st, apps, i + 1)

\* initializeScheduledJobs, called once when the server starts listening
Startup ==
  /\ scheduledJobs = EmptyMap /\ nextPid = 1
  /\ scheduledJobs' = JobsOf(config)
  /\ children' = bootLoop(ProcState, config.apps, 1).children
  /\ runningProcesses' = bootLoop(ProcState, config.apps, 1).table
  /\ nextPid' = bootLoop(ProcState, config.apps, 1).pid
  /\ UNCHANGED <<now, restartTracker, inflight, pendingRestarts,
                 stabilityTimers, hist, cfgVars, scheduleState, diagVars>>

BootSchedules == {NoSchedule, OtherCron, Daily(12, 0), Daily(12, 45)}

BootApp(id, sched, flags) ==
  [id |-> id, port |-> 5173, scheduleCommand |-> FALSE,
   scheduleEnabled |-> flags[1], schedule |-> sched, runIfMissed |-> flags[2]]

BootConfigs ==
  {[reservedPorts |-> {SystemPort},
    apps |-> <<BootApp("a", sa, fa), BootApp("b", Daily(12, 0), fb)>>] :
     sa \in BootSchedules, fa \in BOOLEAN \X BOOLEAN,
     fb \in {<<TRUE, TRUE>>}}

\* the supervisor starts on day 1 at 11:59, 12:30 or 13:05
BootTimes == {DaySecs + 11 * HourSecs + 59 * 60,
              DaySecs + 12 * HourSecs + 30 * 60,
              DaySecs + 13 * HourSecs + 5 * 60}

\* last runs: the day before at 13:00, or the same day at 00:10
BootLastRuns == {13 * HourSecs, DaySecs + 10 * 60}

BootStates ==
  {EmptyMap} \cup
  {[x \in ids |-> [lastRun |-> t, lastExitCode |-> CleanExit,
                   wasManual |-> FALSE]] :
     ids \in {{"a"}, {"a", "b"}}, t \in BootLastRuns}

NextBoot ==
  \/ Startup
  \/ \E c \in children, code \in ExitCodes : ChildExit(c, code)

InitBoot ==
  /\ now \in BootTimes
  /\ InitTable
  /\ config \in BootConfigs
  /\ resp = [op |-> "none"]
  /\ scheduledJobs = EmptyMap
  /\ scheduleState \in BootStates
  /\ InitDiagEmpty

SpecBoot == InitBoot /\ [][NextBoot]_vars


\* ---------------------------------------------------------- crash loop
\* One interactive start with autoRestart; every run crashes with a
\* non-normal code after more than 5 s and none stays up for 60 s.
LoopConfigs == {[autoRestart |-> TRUE, maxRestartAttempts |-> 2]}

Up(k) ==
  Has(runningProcesses, k)
    /\ runningProcesses[k].status \in {"running", "starting"}

LoopCanSpawn == nextPid <= LoopMaxProcs

LoopExit(c) ==
  /\ c \in children
  /\ Has(runningProcesses, c.key)
  /\ runningProcesses[c.key].process = c.pid
  /\ runtimeCrash(now - runningProcesses[c.key].startTime)
  /\ ChildExit(c, CrashExit)

LoopTick(d) ==
  /\ \A k \in Keys :
       Up(k) => now + d - runningProcesses[k].startTime < StabilitySecs
  /\ Tick(d, LoopMaxTime)

NextLoop ==
  \/ \E id \in AppIds, sc \in LoopConfigs :
       nextPid = 1 /\ inflight = {} /\ StartRequest(id, sc)
  \/ \E r \in inflight : LoopCanSpawn /\ StartPreflight(r, TRUE)
  \/ \E r \in inflight : StartSettle(r)
  \/ \E r \in inflight, healthy \in BOOLEAN : StartPollDone(r, healthy)
  \/ \E c \in children : LoopExit(c)
  \/ \E p \in pendingRestarts, busy \in BOOLEAN : RestartProbe(p, busy)
  \/ \E p \in pendingRestarts : LoopCanSpawn /\ RestartSpawn(p)
  \/ \E t \in stabilityTimers : StabilityTimer(t)
  \/ \E d \in TickSteps : LoopTick(d)
  \/ Dues # {} /\ LoopTick(NextDue - now)

SpecLoop == Init /\ [][NextLoop]_vars

\* ============================================================ apps.json
\* The config document: reservedPorts (the reserved port numbers; every
\* reservation carries a non-empty description) and the apps array.
IdPool == {"a", "b", "c"}
CfgPorts == {5173, SystemPort, PortLimit - 1, PortLimit}
BasePorts == {5173, PortLimit - 1, PortLimit, PortLimit + 1}
NoPort == 0
NoId == ""
MaxBatch == 2

DefaultConfig == [reservedPorts |-> {SystemPort}, apps |-> << >>]

IdsOf(cfg) == {cfg.apps[i].id : i \in DOMAIN cfg.apps}

\* index of the first app satisfying the test, 0 when there is none
FindIndex(apps, Test(_)) ==
  IF \E i \in DOMAIN apps : Test(apps[i])
  THEN CHOOSE i \in DOMAIN apps :
         Test(apps[i]) /\ \A j \in 1..(i - 1) : ~Test(apps[j])
  ELSE 0

checkPortAvailability_no_exclude(cfg, port, excludeAppId) ==
  IF port \in cfg.reservedPorts
  THEN [available |-> FALSE, reason |-> "reserved"]
  ELSE IF \E i \in DOMAIN cfg.apps : cfg.apps[i].port = port
       THEN [available |-> FALSE, reason |-> "app"]
       ELSE [available |-> TRUE, reason |-> "none"]

checkPortAvailability(cfg, port, excludeAppId) ==
  IF port \in cfg.reservedPorts
  THEN [available |-> FALSE, reason |-> "reserved"]
  ELSE LET Conflicting(app) == app.port = port /\ app.id # excludeAppId
       IN IF FindIndex(cfg.apps, Conflicting) # 0
          THEN [available |-> FALSE, reason |-> "app"]
          ELSE [available |-> TRUE, reason |-> "none"]

usedPorts(cfg) ==
  cfg.reservedPorts \cup {cfg.apps[i].port : i \in DOMAIN cfg.apps}

RECURSIVE suggestLoop(_, _)
suggestLoop(used, port) ==
  IF port \in used /\ port < PortLimit
  THEN suggestLoop(used, port + 1)
  ELSE port

suggestAvailablePort(cfg, basePort) ==
  LET port == suggestLoop(usedPorts(cfg), basePort)
  IN IF port < PortLimit THEN port ELSE NoPort

\* the bind attempt of isPortInUse: only EADDRINUSE counts as in use
BindOutcomes == {"listening", "EADDRINUSE", "EACCES"}

isPortInUse(outcome) == outcome = "EADDRINUSE"

Resp(op, ok) ==
  [op |-> op, ok |-> ok, port |-> NoPort, exclude |-> NoId,
   registryAvailable |-> FALSE, systemInUse |-> FALSE, available |-> FALSE,
   suggestedPort |-> NoPort]

NewApp(id, port) ==
  [id |-> id, port |-> port, scheduleCommand |-> FALSE,
   scheduleEnabled |-> FALSE, schedule |-> NoSchedule,
   runIfMissed |-> FALSE]

\* POST /api/apps
AddApp(id, port) ==
  /\ id \notin IdsOf(config)
  /\ IF ~checkPortAvailability(config, port, NoId).available
     THEN /\ resp' = [Resp("add", FALSE) EXCEPT
                        !.port = port,
                        !.suggestedPort =
                           suggestAvailablePort(config, port + 1)]
          /\ UNCHANGED config
     ELSE /\ config' = [config EXCEPT
                          !.apps = Append(@, NewApp(id, port))]
          /\ resp' = [Resp("add", TRUE) EXCEPT !.port = port]
  /\ UNCHANGED <<lifeVars, diagVars>>

\* PUT /api/apps/:id with a port in the body
UpdateApp(id, port) ==
  LET appIndex == FindIndex(config.apps, LAMBDA app : app.id = id)
  IN /\ IF appIndex = 0
        THEN /\ resp' = Resp("update", FALSE)
             /\ UNCHANGED config
        ELSE IF port # config.apps[appIndex].port
                /\ ~checkPortAvailability(config, port, id).available
             THEN /\ resp' = [Resp("update", FALSE) EXCEPT
                                !.port = port,
                                !.suggestedPort =
                                   suggestAvailablePort(config, port + 1)]
                  /\ UNCHANGED config
             ELSE /\ config' = [config EXCEPT !.apps[appIndex].port = port]
                  /\ resp' = [Resp("update", TRUE) EXCEPT !.port = port]
     /\ UNCHANGED <<lifeVars, diagVars>>

RemoveAt(seq, i) == SubSeq(seq, 1, i - 1) \o SubSeq(seq, i + 1, Len(seq))

\* DELETE /api/apps/:id
DeleteApp(id) ==
  LET appIndex == FindIndex(config.apps, LAMBDA app : app.id = id)
  IN /\ IF appIndex = 0
        THEN /\ resp' = Resp("delete", FALSE)
             /\ UNCHANGED config
        ELSE /\ config' = [config EXCEPT !.apps = RemoveAt(@, appIndex)]
             /\ resp' = Resp("delete", TRUE)
     /\ UNCHANGED <<lifeVars, diagVars>>

\* POST /api/ports/reserve
ReservePort(port) ==
  /\ IF port \in config.reservedPorts
          \/ FindIndex(config.apps, LAMBDA app : app.port = port) # 0
     THEN /\ resp' = [Resp("reserve", FALSE) EXCEPT !.port = port]
          /\ UNCHANGED config
     ELSE /\ config' = [config EXCEPT !.reservedPorts = @ \cup {port}]
          /\ resp' = [Resp("reserve", TRUE) EXCEPT !.port = port]
  /\ UNCHANGED <<lifeVars, diagVars>>

UnreservePort_any(port) ==
  /\ IF port \notin config.reservedPorts
     THEN /\ resp' = [Resp("unreserve", FALSE) EXCEPT !.port = port]
          /\ UNCHANGED config
     ELSE /\ config' = [config EXCEPT !.reservedPorts = @ \ {port}]
          /\ resp' = [Resp("unreserve", TRUE) EXCEPT !.port = port]
  /\ UNCHANGED <<lifeVars, diagVars>>

\* DELETE /api/ports/reserve/:port
UnreservePort(port) ==
  /\ IF port \notin config.reservedPorts \/ port = SystemPort
     THEN /\ resp' = [Resp("unreserve", FALSE) EXCEPT !.port = port]
          /\ UNCHANGED config
     ELSE /\ config' = [config EXCEPT !.reservedPorts = @ \ {port}]
          /\ resp' = [Resp("unreserve", TRUE) EXCEPT !.port = port]
  /\ UNCHANGED <<lifeVars, diagVars>>

\* the port check of the migrate loop reads the document from the file,
\* not the one being built
migratePortCheck(doc, port) == checkPortAvailability(config, port, NoId)

\* the loop of POST /api/apps/migrate over the batch, from item i on
RECURSIVE migrateLoop(_, _, _)
migrateLoop(doc, batch, i) ==
  IF i > Len(batch) THEN doc
  ELSE IF batch[i].id \in IdsOf(doc)
       THEN migrateLoop(doc, batch, i + 1)
       ELSE IF ~migratePortCheck(doc, batch[i].port).available
            THEN migrateLoop(doc, batch, i + 1)
            ELSE migrateLoop(
                   [doc EXCEPT !.apps =
                      Append(@, NewApp(batch[i].id, batch[i].port))],
                   batch, i + 1)

MigrateApps(batch) ==
  /\ config' = migrateLoop(config, batch, 1)
  /\ resp' = Resp("migrate", TRUE)
  /\ UNCHANGED <<lifeVars, diagVars>>

\* GET /api/ports/check/:port?exclude=
CheckPort(port, excludeAppId, outcome) ==
  LET registryCheck == checkPortAvailability(config, port, excludeAppId)
      systemInUse == isPortInUse(outcome)
  IN /\ resp' = [Resp("check", TRUE) EXCEPT
                   !.port = port,
                   !.exclude = excludeAppId,
                   !.registryAvailable = registryCheck.available,
                   !.systemInUse = systemInUse,
                   !.available = registryCheck.available /\ ~systemInUse,
                   !.suggestedPort =
                      IF ~registryCheck.available \/ systemInUse
                      THEN suggestAvailablePort(config, port + 1)
                      ELSE NoPort]
     /\ UNCHANGED <<config, lifeVars, diagVars>>

\* GET /api/ports/suggest?base=
SuggestPort(basePort) ==
  /\ resp' = [Resp("suggest", TRUE) EXCEPT
                !.port = basePort,
                !.suggestedPort = suggestAvailablePort(config, basePort)]
  /\ UNCHANGED <<config, lifeVars, diagVars>>

BatchItems == {[id |-> id, port |-> port] : id \in IdPool, port \in CfgPorts}

Batches == UNION {[1..n -> BatchItems] : n \in 1..MaxBatch}

NextCfg ==
  \/ \E id \in IdPool, port \in CfgPorts :
       Len(config.apps) < MaxApps /\ AddApp(id, port)
  \/ \E id \in IdPool, port \in CfgPorts : UpdateApp(id, port)
  \/ \E id \in IdPool : DeleteApp(id)
  \/ \E port \in CfgPorts : ReservePort(port)
  \/ \E port \in CfgPorts : UnreservePort(port)
  \/ \E batch \in Batches :
       Len(config.apps) + Len(batch) <= MaxApps /\ MigrateApps(batch)
  \/ \E port \in CfgPorts, ex \in IdPool \cup {NoId},
        outcome \in BindOutcomes : CheckPort(port, ex, outcome)
  \/ \E base \in BasePorts : SuggestPort(base)

InitCfg ==
  /\ InitLife
  /\ config = DefaultConfig
  /\ resp = Resp("none", TRUE)
  /\ scheduledJobs = EmptyMap
  /\ scheduleState = EmptyMap
  /\ InitDiagEmpty

SpecCfg == InitCfg /\ [][NextCfg]_vars


\* ========================================================== diagnostics
\* The troubleshooting log is kept as the bag of its lines: the analysis
\* counts lines and does not depend on their order.  A line is
\* [time, level, app, message, exitCode, normalTermination]; texts (app
\* names, TODO items) are sequences of words.
RecentWindowDays == 7
WarningThreshold == 3
CriticalThreshold == 6

NoType == "none"

\* logTroubleshoot: the line written for a message and its details
logLine(appName, level, message, exitCode, normalTermination) ==
  [time |-> now, level |-> level, app |-> appName, message |-> message,
   exitCode |-> exitCode, normalTermination |-> normalTermination]

\* POST /api/start, port probe found the port busy
portInUseLine(appName) ==
  logLine(appName, "WARN", "Port is already in use", "", "absent")

\* handleProcessExit
processExitLine(appName, exitCode) ==
  logLine(appName, IF isNormalExit(exitCode) THEN "INFO" ELSE "ERROR",
          "Process exited with code", exitCode,
          IF isNormalExit(exitCode) THEN "true" ELSE "false")

\* exit observer of executeScheduledApp: details are exitCode and isManual
executionCompletedLine(appName, exitCode, isManual) ==
  logLine(appName, IF exitCode = CleanExit THEN "INFO" ELSE "ERROR",
          IF isManual THEN "Manual execution completed"
          ELSE "Scheduled execution completed",
          exitCode, "absent")

\* the fragments the analysis looks for that a message text contains
Fragments(message) ==
  CASE message = "Port is already in use" -> {"Port", "in use"}
    [] message = "Process exited with code" -> {"exited with code"}
    [] OTHER -> {}

lineErrorType(line) ==
  LET rest == Fragments(line.message)
  IN IF "Port" \in rest /\ "in use" \in rest THEN "PORT_IN_USE"
     ELSE IF "not found" \in rest \/ "not exist" \in rest
          THEN "PATH_NOT_FOUND"
     ELSE IF "module" \in rest \/ "MODULE" \in rest THEN "MISSING_MODULE"
     ELSE IF "exited with code" \in rest
          THEN IF line.exitCode # "" /\ ~isNormalExit(line.exitCode)
               THEN "CRASH" ELSE NoType
     ELSE NoType

\* a record of the resolutions log as saveResolution writes it
resolutionEntry(appName, issue, errorType, disposition) ==
  [date |-> now, app |-> appName, issue |-> issue, errorType |-> errorType,
   disposition |-> disposition]

\* getResolutions reads the Date, App, Issue, ErrorType, Fix, Worked and
\* Notes lines of an entry; the Disposition line is not read
parseResolution(entry) ==
  [date |-> entry.date, app |-> entry.app, issue |-> entry.issue,
   errorType |-> entry.errorType, disposition |-> "undefined"]

getResolutions(file, appName) ==
  {parseResolution(file[i]) : i \in {j \in DOMAIN file : file[j].app = appName}}

\* error type -> date of its latest resolved resolution
resolvedErrors(pastResolutions) ==
  LET rs == {r \in pastResolutions :
               r.disposition = "resolved" /\ r.errorType # ""}
  IN [t \in {r.errorType : r \in rs} |->
        CHOOSE d \in {r.date : r \in {x \in rs : x.errorType = t}} :
          \A r \in {x \in rs : x.errorType = t} : r.date <= d]

isFailureLevel(line) ==
  line.level \in {"ERROR", "WARN"} /\ line.normalTermination # "true"

wasResolved(line, resolved) ==
  /\ lineErrorType(line) # NoType
  /\ Has(resolved, lineErrorType(line))
  /\ line.time < resolved[lineErrorType(line)]

\* the lines of the app counted as failures
countedLines(log, resFile, appName) ==
  LET resolved == resolvedErrors(getResolutions(resFile, appName))
  IN {l \in DOMAIN log :
        l.app = appName /\ isFailureLevel(l) /\ ~wasResolved(l, resolved)}

\* number of lines of the bag within a set of lines
CountIn(log, lines) ==
  BagCardinality([l \in lines \cap DOMAIN log |-> log[l]])

analyzeLogHistory(log, resFile, appName) ==
  LET counted == countedLines(log, resFile, appName)
      sevenDaysAgo == now - RecentWindowDays * DaySecs
      recent == CountIn(log, {l \in counted : l.time > sevenDaysAgo})
      types == {lineErrorType(l) : l \in counted} \ {NoType}
      errorTypes == [t \in types |->
                       CountIn(log, {l \in counted : lineErrorType(l) = t})]
      level == IF types = {} THEN "none"
               ELSE IF recent >= CriticalThreshold THEN "critical"
               ELSE IF recent >= WarningThreshold THEN "warning"
               ELSE "none"
  IN [failures |-> CountIn(log, counted),
      recentFailures |-> recent,
      errorTypes |-> errorTypes,
      recommendation |-> level,
      shouldAutoTodo |-> level = "critical"]

\* ------------------------------------------------------------- log writers
DiagApp == <<"App">>

DiagExitCodes == {CrashExit, CtrlCExit}

DiagLines ==
  {portInUseLine(DiagApp)}
    \cup {processExitLine(DiagApp, c) : c \in DiagExitCodes}
    \cup {executionCompletedLine(DiagApp, c, FALSE) : c \in DiagExitCodes}

\* a handler appends a line to the log
AppendLog(line) ==
  /\ BagCardinality(logFile) < MaxLog
  /\ logFile' = logFile (+) SetToBag({line})
  /\ UNCHANGED <<lifeVars, cfgVars, resolutionsFile, todoFile, appsFile,
                 installVars>>

\* deleteTodoFromFile: every unchecked item whose line contains the text goes
Includes(hay, needle) ==
  \E i \in 0..(Len(hay) - Len(needle)) :
    SubSeq(hay, i + 1, i + Len(needle)) = needle

isCheckbox(line) == line # << >> /\ line[1] = "- [ ]"

deleteTodoFromFile(lines, todoText) ==
  SelectSeq(lines, LAMBDA line : ~(isCheckbox(line) /\ Includes(line, todoText)))

\* POST /api/resolutions with an explicit error type
RecordResolution(appName, issue, errorType, disposition) ==
  /\ Len(resolutionsFile) < MaxResolutions
  /\ resolutionsFile' =
       Append(resolutionsFile,
              resolutionEntry(appName, issue, errorType, disposition))
  /\ todoFile' = deleteTodoFromFile(todoFile, issue)
  /\ UNCHANGED <<lifeVars, cfgVars, logFile, appsFile,
                 installVars>>

DiagStepDays == RecentWindowDays - 3

\* four days pass
DiagTick ==
  /\ now + DiagStepDays * DaySecs <= DiagMaxDays * DaySecs
  /\ now' = now + DiagStepDays * DaySecs
  /\ UNCHANGED <<runningProcesses, restartTracker, children, inflight,
                 pendingRestarts, stabilityTimers, nextPid, hist, cfgVars,
                 schedVars, diagVars>>

NextDiag ==
  \/ \E line \in DiagLines : AppendLog(line)
  \/ \E t \in {"PORT_IN_USE", "CRASH"}, d \in {"resolved", "cancelled"} :
       RecordResolution(DiagApp, <<"issue">>, t, d)
  \/ DiagTick

InitDiag ==
  /\ InitLife
  /\ config = DefaultConfig
  /\ resp = Resp("none", TRUE)
  /\ scheduledJobs = EmptyMap
  /\ scheduleState = EmptyMap
  /\ InitDiagEmpty

SpecDiag == InitDiag /\ [][NextDiag]_vars

\* ================================================================ TODO.md
\* TODO.md is kept as the sequence of its lines (content.split of the
\* newline); a file that does not exist is the empty sequence.  A line is
\* the sequence of its words, its marker first: an unchecked item is
\* <<"- [ ]", w1, ..., wn>>, a heading <<"##", title>>, an auto-detected
\* entry <<"###", date, app words, ...>>, an empty line << >>.
Checkbox == "- [ ]"

Blank == << >>

AutoSection == <<"##", "Auto-Detected Issues (from troubleshooting log)">>

SupportCodes == <<"##", "Support Codes Reference">>

ParkingLotHeading == <<"##", "Parking Lot">>

NextSessionHeading == <<"##", "Next Session">>

startsWith(line, marker) == line # << >> /\ line[1] = marker

\* line.match(/^##\s+<title>/i)
isHeading(line, title) ==
  Len(line) >= 2 /\ line[1] = "##" /\ line[2] = title

\* lines.splice(at, removeCount, ...inserted), indices from 1
Splice(lines, at, removeCount, inserted) ==
  SubSeq(lines, 1, at - 1) \o inserted
    \o SubSeq(lines, at + removeCount, Len(lines))

\* new Date().toISOString().split('T')[0], in brackets
DateTag(day) == "[" \o ToString(day) \o "]"

today == DateTag(dateOf(now))

\* the error type with the most occurrences (the logs of this model hold
\* one type at a time, so the order of equal counts does not arise)
dominantError(analysis) ==
  IF DOMAIN analysis.errorTypes = {} THEN "failures"
  ELSE CHOOSE t \in DOMAIN analysis.errorTypes :
         \A u \in DOMAIN analysis.errorTypes :
           analysis.errorTypes[u] <= analysis.errorTypes[t]

\* text of the ### line of an auto-detected entry
autoHeading(tag, appName, errorType) ==
  <<tag>> \o appName \o <<"- Recurring", errorType, "(Auto-detected)">>

\* the lines of todoEntry: an empty line, the ### line, four bullets and an
\* empty line
todoEntry(appName, analysis) ==
  <<Blank,
    <<"###">> \o autoHeading(today, appName, dominantError(analysis)),
    <<"-", "Failed", ToString(analysis.recentFailures),
      "times in the last 7 days">>,
    <<"-", "Primary issue:", dominantError(analysis)>>,
    <<"-", "**Suggested fix:**">>,
    <<"-", "Pattern:">>,
    Blank>>

\* appendAutoTodo without the "already logged today" test
appendAutoTodo_no_check(lines, appName, analysis) ==
  LET content == IF lines = << >> THEN <<Blank>> ELSE lines
      entry == todoEntry(appName, analysis)
      sectionIndex == FindIndex(content, LAMBDA l : l = AutoSection)
      supportCodesIndex == FindIndex(content, LAMBDA l : l = SupportCodes)
  IN IF ~analysis.shouldAutoTodo THEN lines
     ELSE IF sectionIndex = 0
          THEN IF supportCodesIndex # 0
               THEN Splice(content, supportCodesIndex, 0,
                           <<AutoSection>> \o entry)
               ELSE content \o <<AutoSection>> \o entry \o <<Blank>>
     ELSE Splice(content, sectionIndex + 1, 0, entry \o <<Blank>>)

\* appendAutoTodo: the file after the call
appendAutoTodo(lines, appName, analysis) ==
  LET content == IF lines = << >> THEN <<Blank>> ELSE lines
      entry == todoEntry(appName, analysis)
      sectionIndex == FindIndex(content, LAMBDA l : l = AutoSection)
      supportCodesIndex == FindIndex(content, LAMBDA l : l = SupportCodes)
  IN IF ~analysis.shouldAutoTodo THEN lines
     ELSE IF \E i \in DOMAIN content :
               Includes(content[i], <<today>> \o appName)
          THEN lines
     ELSE IF sectionIndex = 0
          THEN IF supportCodesIndex # 0
               THEN Splice(content, supportCodesIndex, 0,
                           <<AutoSection>> \o entry)
               ELSE content \o <<AutoSection>> \o entry \o <<Blank>>
     ELSE Splice(content, sectionIndex + 1, 0, entry \o <<Blank>>)

\* POST /api/start, history analysis: the port is free and the child is
\* left to the lifecycle actions; the info lines the handler logs are never
\* counted by the analysis and are left out of the log
StartAnalysis(appName) ==
  /\ todoFile' = appendAutoTodo(todoFile, appName,
                                analyzeLogHistory(logFile, resolutionsFile,
                                                  appName))
  /\ UNCHANGED <<lifeVars, cfgVars, logFile, resolutionsFile, appsFile,
                 installVars>>

\* ----------------------------------------------------------------- triage
\* exclusive end of the block of an auto-detected entry: the next ## or ###
\* line or the end of the file, less the empty lines before it
blockEnd(lines, lineIndex) ==
  LET stops == {j \in (lineIndex + 1)..Len(lines) :
                  startsWith(lines[j], "##") \/ startsWith(lines[j], "###")}
      endIndex == IF stops = {} THEN Len(lines) + 1
                  ELSE CHOOSE j \in stops : \A k \in stops : j <= k
      ends == {e \in (lineIndex + 1)..endIndex :
                 \A j \in e..(endIndex - 1) : lines[j] = Blank}
  IN CHOOSE e \in ends : \A k \in ends : e <= k

\* find or create "Parking Lot" and put the line under it
toParkingLot(lines, newLine) ==
  LET parkingLotIndex ==
        FindIndex(lines, LAMBDA l : isHeading(l, "Parking Lot"))
      supportCodesIndex ==
        FindIndex(lines, LAMBDA l : isHeading(l, "Support Codes Reference"))
  IN IF parkingLotIndex = 0
     THEN IF supportCodesIndex # 0
          THEN Splice(lines, supportCodesIndex, 0,
                      <<Blank, ParkingLotHeading, Blank, newLine, Blank>>)
          ELSE lines \o <<Blank, ParkingLotHeading, Blank, newLine>>
     ELSE Splice(lines, parkingLotIndex + 1, 0, <<newLine>>)

\* find or create "Next Session" and put the line under it; the heading
\* created before the first ## heading is one array element ending in a
\* newline
toNextSession(lines, newLine) ==
  LET nextSessionIndex ==
        FindIndex(lines, LAMBDA l : isHeading(l, "Next Session"))
      firstHeadingIndex == FindIndex(lines, LAMBDA l : startsWith(l, "##"))
  IN IF nextSessionIndex = 0
     THEN IF firstHeadingIndex # 0
          THEN Splice(lines, firstHeadingIndex, 0,
                      <<NextSessionHeading \o <<"\n">>, newLine, Blank>>)
          ELSE lines \o <<Blank, NextSessionHeading, Blank, newLine>>
     ELSE Splice(lines, nextSessionIndex + 1, 0, <<newLine>>)

\* one item of the loop of applyTriage; st is [lines, resolutions]
triageItem(st, item) ==
  LET isAutoDetected == startsWith(item.text, "[Auto]")
      searchText == IF isAutoDetected THEN Tail(item.text) ELSE item.text
      displayText == IF isAutoDetected THEN searchText ELSE item.text
      lineIndex ==
        IF isAutoDetected
        THEN FindIndex(st.lines, LAMBDA l :
                         startsWith(l, "###") /\ Includes(l, searchText))
        ELSE FindIndex(st.lines, LAMBDA l :
                         isCheckbox(l) /\ Includes(l, searchText))
      removeCount == IF isAutoDetected
                     THEN blockEnd(st.lines, lineIndex) - lineIndex ELSE 1
      removed == Splice(st.lines, lineIndex, removeCount, << >>)
      newLine == <<Checkbox>> \o displayText
  IN IF lineIndex = 0 THEN st
     ELSE CASE item.action = "parking" ->
                 [st EXCEPT !.lines = toParkingLot(removed, newLine)]
            [] item.action = "implement" ->
                 [st EXCEPT !.lines = toNextSession(removed, newLine)]
            [] item.action = "dontdo" ->
                 [lines |-> removed,
                  resolutions |->
                    Append(st.resolutions,
                           resolutionEntry(<<"QuickLaunch">>, searchText,
                                           IF isAutoDetected
                                           THEN "AUTO_DETECTED_RESOLVED"
                                           ELSE "TODO_TRIAGED",
                                           "cancelled"))]
            [] OTHER -> st

RECURSIVE triageLoop(_, _, _)
triageLoop(st, items, i) ==
  IF i > Len(items) THEN st
  ELSE triageLoop(triageItem(st, items[i]), items, i + 1)

\* lines.join of the newline, as the next reader splits it
RECURSIVE joinLines(_)
joinLines(lines) ==
  IF lines = << >> THEN << >>
  ELSE LET line == Head(lines)
       IN (IF line # << >> /\ line[Len(line)] = "\n"
           THEN <<SubSeq(line, 1, Len(line) - 1), Blank>>
           ELSE <<line>>) \o joinLines(Tail(lines))

applyTriage(lines, resolutions, items) ==
  IF lines = << >> THEN [lines |-> lines, resolutions |-> resolutions]
  ELSE LET st == triageLoop([lines |-> lines, resolutions |-> resolutions],
                            items, 1)
       IN [lines |-> joinLines(st.lines), resolutions |-> st.resolutions]

\* countTodos: the texts the triage dialog offers, the unchecked items and
\* the auto-detected entries (in the documents of this model every unchecked
\* item is in a counted section)
PendingItems(lines) ==
  {Tail(lines[i]) : i \in {j \in DOMAIN lines : isCheckbox(lines[j])}}
    \cup {<<"[Auto]">> \o Tail(lines[i]) :
            i \in {j \in DOMAIN lines : startsWith(lines[j], "###")}}

TriageActions == {"parking", "implement", "dontdo"}

TriageItems ==
  {[text |-> t, action |-> a] : t \in PendingItems(todoFile),
                                  a \in TriageActions}

TriageBatches == UNION {[1..n -> TriageItems] : n \in 1..MaxTriage}

\* POST /api/triage
ApplyTriage(items) ==
  LET st == applyTriage(todoFile, resolutionsFile, items)
  IN /\ Len(resolutionsFile)
          + Cardinality({i \in DOMAIN items : items[i].action = "dontdo"})
          <= MaxResolutions
     /\ todoFile' = st.lines
     /\ resolutionsFile' = st.resolutions
     /\ UNCHANGED <<lifeVars, cfgVars, logFile, appsFile,
                 installVars>>

\* ------------------------------------------------------------ TODO model
TodoApps == {<<"App">>, <<"App", "Two">>}

\* each app has found its port busy CriticalThreshold times today
BusyLog ==
  [l \in {portInUseLine(a) : a \in TodoApps} |-> CriticalThreshold]

\* a TODO.md holding the entry added for App DiagStepDays days ago
TodoOld ==
  <<<<"##", "High Priority">>,
    Blank,
    AutoSection,
    Blank,
    <<"###">> \o autoHeading(DateTag(0), <<"App">>, "PORT_IN_USE"),
    <<"-", "Failed", "6", "times in the last 7 days">>,
    Blank,
    SupportCodes>>

NextTodo ==
  \/ \E a \in TodoApps : StartAnalysis(a)
  \/ \E item \in TriageItems : ApplyTriage(<<item>>)

InitTodo ==
  /\ now = DiagStepDays * DaySecs
  /\ InitTable
  /\ config = DefaultConfig
  /\ resp = Resp("none", TRUE)
  /\ scheduledJobs = EmptyMap
  /\ scheduleState = EmptyMap
  /\ logFile = BusyLog
  /\ resolutionsFile = << >>
  /\ appsFile = NoAppsFile
  /\ InitInstalls
  /\ todoFile \in {<< >>, TodoOld}

SpecTodo == InitTodo /\ [][NextTodo]_vars

\* ---------------------------------------------------------- triage model
\* a TODO.md with two items, the text of the second inside the first
TodoDoc ==
  <<<<"##", "High Priority">>,
    <<Checkbox, "fix", "bug", "parser">>,
    <<Checkbox, "fix", "bug">>,
    Blank,
    SupportCodes>>

NextTriage ==
  \/ StartAnalysis(<<"App">>)
  \/ \E items \in TriageBatches : ApplyTriage(items)
  \/ RecordResolution(<<"App">>, <<"fix", "bug">>, "PORT_IN_USE", "resolved")

InitTriage ==
  /\ InitLife
  /\ config = DefaultConfig
  /\ resp = Resp("none", TRUE)
  /\ scheduledJobs = EmptyMap
  /\ scheduleState = EmptyMap
  /\ logFile = BusyLog
  /\ resolutionsFile = << >>
  /\ appsFile = NoAppsFile
  /\ InitInstalls
  /\ todoFile \in {<< >>, TodoDoc}

SpecTriage == InitTriage /\ [][NextTriage]_vars

\* ========================================================= start preflight
StartMaxProcs == 2

FindPortAttempts == 100

\* the port each project's own configuration makes its program listen on
projectPort(path) == IF path = "A" THEN 5173 ELSE PortLimit

\* the body of POST /api/start: the client declares the project's port
StartBodies ==
  {[id |-> "a", port |-> projectPort(pa), path |-> pa, command |-> cmd,
    retry |-> rt, overridePort |-> ov] :
     pa \in {"A", "B"},
     cmd \in {<<"npm", "run", "dev">>, <<"node", "server.js">>},
     rt \in BOOLEAN, ov \in {NoPort, 5174}}

\* what the system holds when the checks run: the ports bound by other
\* processes, whether the blocking process can be killed, and the files
BusySets ==
  {{}, {5173}, {5173, 5174}, 5173..(5173 + FindPortAttempts), {PortLimit}}

StartEnvs ==
  [busy : BusySets, killOk : BOOLEAN, pathExists : BOOLEAN,
   packageJson : BOOLEAN, nodeModules : BOOLEAN]

startAppConfig(body) ==
  [id |-> body.id,
   port |-> IF body.overridePort # NoPort THEN body.overridePort
            ELSE body.port,
   path |-> body.path, command |-> body.command,
   autoRestart |-> FALSE, maxRestartAttempts |-> 0]

\* net.Server.listen throws for a port above 65535; isPortInUse then rejects
portProbeThrows(port) == port > PortLimit

\* the bind attempt on a port that another process holds, or on a free one
bindOutcome(port, busy) ==
  IF port \in busy THEN "EADDRINUSE" ELSE "listening"

portInUse(port, busy) == isPortInUse(bindOutcome(port, busy))

\* probes startPort, startPort + 1, ... and stops at the first free one
findNextAvailablePort(startPort, busy) ==
  LET attempts == startPort..(startPort + FindPortAttempts - 1)
      free == {p \in attempts : ~portInUse(p, busy)}
      first == IF free = {} THEN NoPort
               ELSE CHOOSE p \in free : \A q \in free : p <= q
      probed == IF free = {} THEN attempts ELSE startPort..first
  IN [threw |-> \E p \in probed : portProbeThrows(p),
      found |-> free # {}, port |-> first]

TraceStep(step, status) == [step |-> step, status |-> status]

StartFailure(supportCode, canRetry, trace) ==
  [op |-> "start", ok |-> FALSE, threw |-> FALSE, http |-> 400,
   supportCode |-> supportCode, canRetry |-> canRetry,
   canUseAlternative |-> FALSE, alternativePort |-> NoPort,
   needsInstall |-> FALSE, trace |-> trace]

\* the handler's promise rejected before any answer was written
StartThrew(trace) ==
  [StartFailure("", FALSE, trace) EXCEPT !.threw = TRUE, !.http = 0]

StartPassed(trace) ==
  [StartFailure("", FALSE, trace) EXCEPT !.ok = TRUE, !.http = 0]

\* a command is held as its words; "npm " is the word npm and a space
isNpmCommand(command) == startsWith(command, "npm") /\ Len(command) > 1

\* steps 4 and 5: manifest and dependency directory, npm commands only
manifestChecks(appConfig, env, trace) ==
  IF ~isNpmCommand(appConfig.command) THEN StartPassed(trace)
  ELSE IF ~env.packageJson
  THEN StartFailure("QL-NPM-001", FALSE,
         Append(trace, TraceStep("package_json_check", "not_found")))
  ELSE LET t == Append(trace, TraceStep("package_json_check", "found"))
       IN IF ~env.nodeModules
          THEN [StartFailure("QL-MOD-001", FALSE,
                  Append(t, TraceStep("node_modules_check", "not_found")))
                EXCEPT !.needsInstall = TRUE]
          ELSE StartPassed(
                 Append(t, TraceStep("node_modules_check", "found")))

\* step 3, then the rest
pathChecks(appConfig, env, trace) ==
  LET t == Append(trace, TraceStep("port_check", "available"))
  IN IF ~env.pathExists
     THEN StartFailure("QL-PATH-001", FALSE,
            Append(t, TraceStep("path_check", "not_found")))
     ELSE manifestChecks(appConfig, env,
            Append(t, TraceStep("path_check", "exists")))

\* steps 1 and 2: the port probe and the recovery asked for by retry
startPreflight(appConfig, retry, env) ==
  LET port == appConfig.port
      t0 == <<TraceStep("port_check", "checking")>>
      t1 == Append(t0, TraceStep("port_check", "port_in_use"))
      t2 == Append(t1, TraceStep("kill_port_process", "attempting"))
      alt == findNextAvailablePort(port + 1, env.busy)
  IN IF ~portInUse(port, env.busy) THEN pathChecks(appConfig, env, t0)
     ELSE IF retry
     THEN IF env.killOk
          THEN pathChecks(appConfig, env,
                 Append(t2, TraceStep("kill_port_process", "success")))
          ELSE StartFailure("QL-PORT-001", TRUE,
                 Append(t2, TraceStep("kill_port_process", "failed")))
     ELSE IF alt.threw THEN StartThrew(t1)
     ELSE [StartFailure("QL-PORT-001", TRUE,
             Append(t1, TraceStep("port_info", "identified")))
           EXCEPT !.canUseAlternative = alt.found,
                  !.alternativePort = IF alt.found THEN alt.port
                                      ELSE NoPort]

\* the port the spawned program binds: spawn passes the command and the
\* working directory, so the project's configuration decides
listenPort(child) == projectPort(child.appConfig.path)

\* POST /api/start up to its first await
StartCall(body) ==
  StartAccept(body.id, startAppConfig(body), body.retry)

\* the preflight checks, then the spawn or the 400 answer
StartCheck(r, env) ==
  /\ StartSpawn(r, startPreflight(r.appConfig, r.retry, env).ok)
  /\ resp' = startPreflight(r.appConfig, r.retry, env)
  /\ UNCHANGED config

StartCanAccept == nextPid + Cardinality(inflight) <= StartMaxProcs

NextStart ==
  \/ \E body \in StartBodies : StartCanAccept /\ StartCall(body)
  \/ \E r \in inflight, env \in StartEnvs : StartCheck(r, env)
  \/ \E r \in inflight : StartSettle(r)
  \/ \E r \in inflight, healthy \in BOOLEAN : StartPollDone(r, healthy)

InitStart ==
  /\ InitLife
  /\ config = DefaultConfig
  /\ resp = [op |-> "none"]
  /\ scheduledJobs = EmptyMap
  /\ scheduleState = EmptyMap
  /\ InitDiagEmpty

SpecStart == InitStart /\ [][NextStart]_vars

\* ======================================================== schedule endpoints
JobMaxProcs == 1

\* setupScheduledJob: the job of the id is cancelled, and a new one holding
\* appConfig is set when there is a schedule and it is enabled
setupScheduledJob(jobs, appId, appConfig) ==
  IF appConfig.schedule.kind = "none" \/ ~appConfig.scheduleEnabled
  THEN Del(jobs, appId)
  ELSE Put(Del(jobs, appId), appId, appConfig)

\* POST /api/schedule/:id/enable
EnableSchedule(id, enabled) ==
  LET appIndex == FindIndex(config.apps, LAMBDA app : app.id = id)
  IN /\ IF appIndex = 0
        THEN /\ resp' = Resp("enable", FALSE)
             /\ UNCHANGED <<config, scheduledJobs>>
        ELSE IF enabled /\ config.apps[appIndex].schedule.kind = "none"
        THEN /\ resp' = Resp("enable", FALSE)
             /\ UNCHANGED <<config, scheduledJobs>>
        ELSE /\ config' = [config EXCEPT
                             !.apps[appIndex].scheduleEnabled = enabled]
             /\ scheduledJobs' =
                  IF enabled
                  THEN setupScheduledJob(scheduledJobs, id,
                                         config'.apps[appIndex])
                  ELSE Del(scheduledJobs, id)
             /\ resp' = Resp("enable", TRUE)
     /\ UNCHANGED <<now, runningProcesses, restartTracker, children,
                    inflight, pendingRestarts, stabilityTimers, nextPid,
                    hist, scheduleState, diagVars>>

\* PUT /api/schedule/:id with a schedule in the body
PutSchedule(id, newSchedule) ==
  LET appIndex == FindIndex(config.apps, LAMBDA app : app.id = id)
  IN /\ IF appIndex = 0
        THEN /\ resp' = Resp("schedule", FALSE)
             /\ UNCHANGED <<config, scheduledJobs>>
        ELSE /\ config' = [config EXCEPT
                             !.apps[appIndex].schedule = newSchedule]
             /\ scheduledJobs' =
                  IF config.apps[appIndex].scheduleEnabled
                  THEN setupScheduledJob(scheduledJobs, id,
                                         config'.apps[appIndex])
                  ELSE scheduledJobs
             /\ resp' = Resp("schedule", TRUE)
     /\ UNCHANGED <<now, runningProcesses, restartTracker, children,
                    inflight, pendingRestarts, stabilityTimers, nextPid,
                    hist, scheduleState, diagVars>>

\* PUT /api/apps/:id with schedule and scheduleEnabled in the body: the
\* fields are merged into the app, the jobs are left as they are
UpdateAppSchedule(id, newSchedule, enabled) ==
  LET appIndex == FindIndex(config.apps, LAMBDA app : app.id = id)
  IN /\ IF appIndex = 0
        THEN /\ resp' = Resp("update", FALSE)
             /\ UNCHANGED config
        ELSE /\ config' = [config EXCEPT
                             !.apps[appIndex].schedule = newSchedule,
                             !.apps[appIndex].scheduleEnabled = enabled]
             /\ resp' = Resp("update", TRUE)
     /\ UNCHANGED <<lifeVars, diagVars>>

JobIds == {"a", "b"}

JobPorts == {5173, 5174}

JobSchedules == {NoSchedule, Daily(12, 0), OtherCron}

JobCanSpawn == nextPid <= JobMaxProcs

NextJobs ==
  \/ \E id \in JobIds, port \in JobPorts : AddApp(id, port)
  \/ \E id \in JobIds, port \in JobPorts : UpdateApp(id, port)
  \/ \E id \in JobIds, sch \in JobSchedules, en \in BOOLEAN :
       UpdateAppSchedule(id, sch, en)
  \/ \E id \in JobIds : DeleteApp(id)
  \/ \E id \in JobIds, en \in BOOLEAN : EnableSchedule(id, en)
  \/ \E id \in JobIds, sch \in JobSchedules : PutSchedule(id, sch)
  \/ \E id \in DOMAIN scheduledJobs :
       JobCanSpawn /\ CronFire(scheduledJobs[id])

InitJobs ==
  /\ InitLife
  /\ config = DefaultConfig
  /\ resp = Resp("none", TRUE)
  /\ scheduledJobs = EmptyMap
  /\ scheduleState = EmptyMap
  /\ InitDiagEmpty

SpecJobs == InitJobs /\ [][NextJobs]_vars

\* ============================================================== liveness
\* One app with autoRestart and a budget of one restart, whose program
\* answers HTTP whenever it is up. The supervisor's own steps (continuations
\* of requests, delayed restarts, timers, the clock reaching a due time) are
\* taken whenever they stay possible; requests and crashes are not.
LiveMaxTime == 185

LiveMaxProcs == 3

LiveConfigs == {[autoRestart |-> TRUE, maxRestartAttempts |-> 1]}

LiveTickSteps == {StabilitySecs}

\* checkHealth of an app whose program is up
answersHttp(id) == \E c \in children : c.key = id /\ ~c.stopped

\* GET /api/status: the running flag of a tracked key
statusRunning(id) ==
  Has(runningProcesses, id) /\ runningProcesses[id].status = "running"

LiveCanSpawn == nextPid <= LiveMaxProcs

LiveSystem ==
  \/ \E r \in inflight : LiveCanSpawn /\ StartPreflight(r, TRUE)
  \/ \E r \in inflight : StartSettle(r)
  \/ \E r \in inflight : StartPollDone(r, answersHttp(r.id))
  \/ \E p \in pendingRestarts, busy \in BOOLEAN : RestartProbe(p, busy)
  \/ \E p \in pendingRestarts : LiveCanSpawn /\ RestartSpawn(p)
  \/ \E t \in stabilityTimers : StabilityTimer(t)
  \/ Dues # {} /\ Tick(NextDue - now, NextDue)

\* a request or a crash is taken only while a process is left for the spawn
\* it leads to, so that no continuation waits for one
LiveCanAccept ==
  nextPid + Cardinality({r \in inflight : r.pc = "probe"})
          + Cardinality(pendingRestarts) <= LiveMaxProcs

LiveEnvironment ==
  \/ \E id \in AppIds, sc \in LiveConfigs :
       LiveCanAccept /\ inflight = {} /\ StartRequest(id, sc)
  \/ \E c \in children : LiveCanAccept /\ LoopExit(c)
  \/ \E d \in LiveTickSteps : Tick(d, LiveMaxTime)

NextLive == LiveSystem \/ LiveEnvironment

InitLive ==
  /\ InitLife
  /\ config = DefaultConfig
  /\ resp = [op |-> "none"]
  /\ scheduledJobs = EmptyMap
  /\ scheduleState = EmptyMap
  /\ InitDiagEmpty

SpecLive == InitLive /\ [][NextLive]_vars /\ WF_vars(LiveSystem)

\* ============================================================ apps.json file
\* The text of apps.json as a sequence of tokens: the opening brace, one
\* token per reserved port (JSON.stringify lists integer keys in ascending
\* order), one token per app, and the closing brace.
NoApp == [id |-> NoId, port |-> NoPort]

Token(k, port, app) == [k |-> k, port |-> port, app |-> app]

OpenToken == Token("open", NoPort, NoApp)

CloseToken == Token("close", NoPort, NoApp)

RECURSIVE sortedPorts(_)
sortedPorts(ports) ==
  IF ports = {} THEN << >>
  ELSE LET m == CHOOSE p \in ports : \A q \in ports : p <= q
       IN <<m>> \o sortedPorts(ports \ {m})

stringify(doc) ==
  LET ports == sortedPorts(doc.reservedPorts)
  IN <<OpenToken>>
       \o [i \in 1..Len(ports) |-> Token("port", ports[i], NoApp)]
       \o [i \in 1..Len(doc.apps) |->
             Token("app", NoPort,
                   [id |-> doc.apps[i].id, port |-> doc.apps[i].port])]
       \o <<CloseToken>>

\* JSON.parse: a text that does not end with its closing brace throws
parses(text) ==
  /\ Len(text) >= 2
  /\ text[1] = OpenToken
  /\ text[Len(text)] = CloseToken

parsed(text) ==
  LET apps == SelectSeq(text, LAMBDA t : t.k = "app")
  IN [reservedPorts |->
        {text[i].port : i \in {j \in DOMAIN text : text[j].k = "port"}},
      apps |-> [i \in 1..Len(apps) |->
                  NewApp(apps[i].app.id, apps[i].app.port)]]

\* what the catch branch of loadAppsConfig returns
FailedLoadConfig == [reservedPorts |-> {}, apps |-> << >>]

loadAppsConfig(file) ==
  IF parses(file.text) THEN parsed(file.text) ELSE FailedLoadConfig

\* fs.writeFileSync opens the file with truncation, then writes the text
saveAppsConfig(doc) == [text |-> << >>, pending |-> stringify(doc)]

\* POST /api/apps on the file
StoreAddApp(id, port) ==
  LET cfg == loadAppsConfig(appsFile)
  IN /\ appsFile.pending = << >>
     /\ id \notin IdsOf(cfg)
     /\ IF ~checkPortAvailability(cfg, port, NoId).available
        THEN /\ resp' = [Resp("add", FALSE) EXCEPT !.port = port]
             /\ UNCHANGED appsFile
        ELSE /\ appsFile' = saveAppsConfig(
                    [cfg EXCEPT !.apps = Append(@, NewApp(id, port))])
             /\ resp' = [Resp("add", TRUE) EXCEPT !.port = port]
     /\ UNCHANGED <<lifeVars, config, logFile, resolutionsFile, todoFile,
                    installVars>>

\* POST /api/ports/reserve on the file
StoreReservePort(port) ==
  LET cfg == loadAppsConfig(appsFile)
  IN /\ appsFile.pending = << >>
     /\ IF port \in cfg.reservedPorts
             \/ \E i \in DOMAIN cfg.apps : cfg.apps[i].port = port
        THEN /\ resp' = [Resp("reserve", FALSE) EXCEPT !.port = port]
             /\ UNCHANGED appsFile
        ELSE /\ appsFile' = saveAppsConfig(
                    [cfg EXCEPT !.reservedPorts = @ \cup {port}])
             /\ resp' = [Resp("reserve", TRUE) EXCEPT !.port = port]
     /\ UNCHANGED <<lifeVars, config, logFile, resolutionsFile, todoFile,
                    installVars>>

\* the next part of the text reaches the file
StoreWrite ==
  /\ appsFile.pending # << >>
  /\ appsFile' = [text |-> Append(appsFile.text, Head(appsFile.pending)),
                  pending |-> Tail(appsFile.pending)]
  /\ UNCHANGED <<lifeVars, cfgVars, logFile, resolutionsFile, todoFile,
                    installVars>>

\* the supervisor dies inside writeFileSync and is started again
StoreCrash ==
  /\ appsFile.pending # << >>
  /\ appsFile' = [appsFile EXCEPT !.pending = << >>]
  /\ UNCHANGED <<lifeVars, cfgVars, logFile, resolutionsFile, todoFile,
                    installVars>>

\* the user edits the file by hand and leaves it without its closing brace
HandEdit ==
  /\ appsFile.pending = << >>
  /\ parses(appsFile.text)
  /\ appsFile' = [appsFile EXCEPT
                    !.text = SubSeq(@, 1, Len(@) - 1)]
  /\ UNCHANGED <<lifeVars, cfgVars, logFile, resolutionsFile, todoFile,
                    installVars>>

StoreIds == {"a", "b"}

StorePorts == {5173, 5174}

NextStore ==
  \/ \E id \in StoreIds, port \in StorePorts : StoreAddApp(id, port)
  \/ \E port \in StorePorts : StoreReservePort(port)
  \/ StoreWrite
  \/ StoreCrash
  \/ HandEdit

InitStore ==
  /\ InitLife
  /\ config = DefaultConfig
  /\ resp = Resp("none", TRUE)
  /\ scheduledJobs = EmptyMap
  /\ scheduleState = EmptyMap
  /\ logFile = EmptyBag
  /\ resolutionsFile = << >>
  /\ todoFile = << >>
  /\ appsFile = [text |-> stringify(DefaultConfig), pending |-> << >>]
  /\ InitInstalls

SpecStore == InitStore /\ [][NextStore]_vars

\* ================================================================= installs
InstallMaxProcs == 3

InstallMaxTime == 60

InstallExpirySecs == 30

\* the 400 answer "Install already in progress"
installRejected(id) ==
  Has(ongoingInstalls, id) /\ ongoingInstalls[id].status = "running"

\* POST /api/install: the answers 400, or runInstall spawns and sets the
\* record of the id
InstallRequest(id, filesOk) ==
  /\ IF installRejected(id) \/ ~filesOk
     THEN UNCHANGED <<children, nextPid, ongoingInstalls>>
     ELSE /\ children' = children \cup
               {NewChild(nextPid, "install", id, SyncConfig)}
          /\ ongoingInstalls' =
               Put(ongoingInstalls, id,
                   [process |-> nextPid, status |-> "running",
                    startTime |-> now])
          /\ nextPid' = nextPid + 1
  /\ UNCHANGED <<now, runningProcesses, restartTracker, inflight,
                 pendingRestarts, stabilityTimers, hist, cfgVars, schedVars,
                 logFile, resolutionsFile, todoFile, appsFile,
                 installTimers>>

\* the observers write to the installInfo object of their own runInstall
\* call, which is in the map only while the map still holds that object
ownInfo(c, status) ==
  IF Has(ongoingInstalls, c.key) /\ ongoingInstalls[c.key].process = c.pid
  THEN [ongoingInstalls EXCEPT ![c.key].status = status]
  ELSE ongoingInstalls

\* 'exit' observer of an install: final status, and the record of the id is
\* deleted 30 s later
InstallExit(c, code) ==
  /\ c \in children /\ c.kind = "install"
  /\ children' = children \ {c}
  /\ ongoingInstalls' =
       ownInfo(c, IF code = CleanExit THEN "success" ELSE "failed")
  /\ installTimers' = installTimers \cup
       {[appId |-> c.key, due |-> now + InstallExpirySecs]}
  /\ UNCHANGED <<now, runningProcesses, restartTracker, inflight,
                 pendingRestarts, stabilityTimers, nextPid, hist, cfgVars,
                 schedVars, logFile, resolutionsFile, todoFile, appsFile>>

\* 'error' observer: the spawn failed; no exit follows and no timer is set
InstallSpawnError(c) ==
  /\ c \in children /\ c.kind = "install"
  /\ Has(ongoingInstalls, c.key)
  /\ ongoingInstalls[c.key].process = c.pid
  /\ ongoingInstalls[c.key].startTime = now
  /\ children' = children \ {c}
  /\ ongoingInstalls' = ownInfo(c, "failed")
  /\ UNCHANGED <<now, runningProcesses, restartTracker, inflight,
                 pendingRestarts, stabilityTimers, nextPid, hist, cfgVars,
                 schedVars, logFile, resolutionsFile, todoFile, appsFile,
                 installTimers>>

\* setTimeout(() => ongoingInstalls.delete(appId), 30000)
InstallExpire(t) ==
  /\ t \in installTimers /\ t.due <= now
  /\ installTimers' = installTimers \ {t}
  /\ ongoingInstalls' = Del(ongoingInstalls, t.appId)
  /\ UNCHANGED <<now, runningProcesses, restartTracker, children, inflight,
                 pendingRestarts, stabilityTimers, nextPid, hist, cfgVars,
                 schedVars, logFile, resolutionsFile, todoFile, appsFile>>

\* time passes, up to the next expiry at most
InstallTick(d) ==
  /\ d > 0
  /\ now + d <= InstallMaxTime
  /\ \A t \in installTimers : now + d <= t.due
  /\ now' = now + d
  /\ UNCHANGED <<runningProcesses, restartTracker, children, inflight,
                 pendingRestarts, stabilityTimers, nextPid, hist, cfgVars,
                 schedVars, diagVars>>

InstallIds == {"a", "b"}

InstallTickSteps == {InstallExpirySecs \div 3, InstallExpirySecs}

NextInstall ==
  \/ \E id \in InstallIds, filesOk \in BOOLEAN :
       /\ installRejected(id) \/ ~filesOk \/ nextPid <= InstallMaxProcs
       /\ InstallRequest(id, filesOk)
  \/ \E c \in children, code \in {CleanExit, CrashExit} :
       InstallExit(c, code)
  \/ \E c \in children : InstallSpawnError(c)
  \/ \E t \in installTimers : InstallExpire(t)
  \/ \E d \in InstallTickSteps : InstallTick(d)

SpecInstall == InitJobs /\ [][NextInstall]_vars

\* ------------------------------------------------------ stops and restarts
\* The lifecycle with starts whose preflight passes: an entry is dropped by
\* an accepted start, which then inserts its own, or by a stop.
NextStop ==
  \/ \E id \in AppIds, sc \in StartConfigs :
       CanAccept /\ StartRequest(id, sc)
  \/ \E r \in inflight : CanSpawn /\ StartPreflight(r, TRUE)
  \/ \E r \in inflight : StartSettle(r)
  \/ \E r \in inflight, healthy \in BOOLEAN : StartPollDone(r, healthy)
  \/ \E c \in children : StdoutMarker(c)
  \/ \E c \in children, code \in ExitCodes : ChildExit(c, code)
  \/ \E p \in pendingRestarts, busy \in BOOLEAN : RestartProbe(p, busy)
  \/ \E p \in pendingRestarts : CanSpawn /\ RestartSpawn(p)
  \/ \E t \in stabilityTimers : StabilityTimer(t)
  \/ \E id \in Keys, killOk \in BOOLEAN : Stop(id, killOk)
  \/ \E d \in TickSteps : Tick(d, MaxTime)
  \/ Dues # {} /\ Tick(NextDue - now, NextDue)

SpecStop == Init /\ [][NextStop]_vars

\* ------------------------------------------------ starts and the registry
\* The document holds two apps and a reservation; app a is started on its
\* own port, on the port of app b or on the reserved port.
RegMaxProcs == 2

RegReserved == 5175

RegDoc ==
  [reservedPorts |-> {SystemPort, RegReserved},
   apps |-> <<NewApp("a", 5173), NewApp("b", 5174)>>]

RegBodies ==
  {[id |-> "a", port |-> 5173, path |-> "A", command |-> cmd,
    retry |-> rt, overridePort |-> ov] :
     cmd \in {<<"npm", "run", "dev">>, <<"node", "server.js">>},
     rt \in BOOLEAN, ov \in {NoPort, 5174, RegReserved}}

NextReg ==
  \/ \E body \in RegBodies :
       nextPid + Cardinality(inflight) <= RegMaxProcs /\ StartCall(body)
  \/ \E r \in inflight, env \in StartEnvs : StartCheck(r, env)
  \/ \E r \in inflight : StartSettle(r)
  \/ \E r \in inflight, healthy \in BOOLEAN : StartPollDone(r, healthy)

InitReg ==
  /\ InitLife
  /\ config = RegDoc
  /\ resp = [op |-> "none"]
  /\ scheduledJobs = EmptyMap
  /\ scheduleState = EmptyMap
  /\ InitDiagEmpty

SpecReg == InitReg /\ [][NextReg]_vars

\* ------------------------------------------------ restarts and the document
\* One app of the document is started with autoRestart; its runs crash, and
\* the document is edited after the start while no restarted process is up.
SnapMaxProcs == 3

SnapMaxTime == 20

SnapIds == {"a"}

SnapEditPorts == {5175, 5176}

\* the body the client sends for the app: the port of its card, an override
\* port, autoRestart: true and maxRestartAttempts: 2
SnapBody(id) ==
  [id |-> id, port |-> 5173, path |-> "A", command |-> <<"npm", "run", "dev">>,
   retry |-> FALSE, overridePort |-> 5174]

SnapConfig(id) ==
  [startAppConfig(SnapBody(id)) EXCEPT !.autoRestart = TRUE,
                                       !.maxRestartAttempts = 2]

SnapDoc ==
  [reservedPorts |-> {SystemPort}, apps |-> <<NewApp("a", 5173)>>]

SnapCanSpawn == nextPid <= SnapMaxProcs

SnapEditable ==
  /\ nextPid > 1
  /\ \A c \in children : c.kind = "start"

NextSnap ==
  \/ \E id \in SnapIds :
       /\ nextPid + Cardinality(inflight) <= SnapMaxProcs - 1
       /\ StartAccept(id, SnapConfig(id), FALSE)
  \/ \E r \in inflight : SnapCanSpawn /\ StartPreflight(r, TRUE)
  \/ \E r \in inflight : StartSettle(r)
  \/ \E r \in inflight, healthy \in BOOLEAN : StartPollDone(r, healthy)
  \/ \E c \in children, code \in {CleanExit, CrashExit} : ChildExit(c, code)
  \/ \E p \in pendingRestarts, busy \in BOOLEAN : RestartProbe(p, busy)
  \/ \E p \in pendingRestarts : SnapCanSpawn /\ RestartSpawn(p)
  \/ \E id \in SnapIds, port \in SnapEditPorts :
       SnapEditable /\ UpdateApp(id, port)
  \/ \E id \in SnapIds : SnapEditable /\ DeleteApp(id)
  \/ \E d \in TickSteps : Tick(d, SnapMaxTime)
  \/ Dues # {} /\ Tick(NextDue - now, NextDue)

InitSnap ==
  /\ InitLife
  /\ config = SnapDoc
  /\ resp = Resp("none", TRUE)
  /\ scheduledJobs = EmptyMap
  /\ scheduleState = EmptyMap
  /\ InitDiagEmpty

SpecSnap == InitSnap /\ [][NextSnap]_vars


\* ================================================================ claims
Terminal == {"stopped", "failed", "completed"}

\* C1: once an entry is stopped, failed or completed, no later action on
\* that same entry sets its status back to running or starting.
C1_TerminalNeverRevived ==
  [][\A k \in Keys :
       (/\ Has(runningProcesses, k)
        /\ runningProcesses[k].status \in Terminal
        /\ Has(runningProcesses', k)
        /\ runningProcesses'[k].process = runningProcesses[k].process)
       => runningProcesses'[k].status \notin {"running", "starting"}]_vars

\* C2: an exit with a code of the normal-exit set, handled by
\* handleProcessExit, leaves the entry stopped and triggers no auto-restart
\* (no restart is scheduled and the tracker is not touched), whatever the
\* run time and the autoRestart setting.
C2_NormalExitStops ==
  [][\A c \in children, code \in {CleanExit, CtrlCExit, LogoffExit} :
       (c.kind # "sched" /\ ChildExit(c, code))
       => /\ Has(runningProcesses, c.key)
               => runningProcesses'[c.key].status = "stopped"
          /\ restartTracker' = restartTracker
          /\ pendingRestarts' = pendingRestarts
          /\ hist' = hist]_vars

C2_Witness ==
  \E k \in DOMAIN runningProcesses :
    /\ runningProcesses[k].status = "stopped"
    /\ runningProcesses[k].exitCode = CtrlCExit
    /\ runningProcesses[k].appConfig.autoRestart
    /\ now - runningProcesses[k].startTime > StartupCrashSecs
    /\ children = {}

\* C3: a non-normal exit after run time dt gives failed when dt < 5 s, a
\* restart attempt when dt >= 5 s, autoRestart is set and a restart is
\* permitted, and failed in every other case; never stopped.
C3_CrashClassification ==
  [][\A c \in children, code \in ExitCodes \ {CleanExit, CtrlCExit, LogoffExit} :
       (c.kind # "sched" /\ Has(runningProcesses, c.key)
          /\ ChildExit(c, code))
       => LET dt == now - runningProcesses[c.key].startTime
          IN runningProcesses'[c.key].status =
               IF dt < StartupCrashSecs THEN "failed"
               ELSE IF c.appConfig.autoRestart
                       /\ shouldAutoRestart(c.key, c.appConfig)
                    THEN "restarting"
                    ELSE "failed"]_vars

\* C4: with maxRestartAttempts = N, runs that keep crashing after more than
\* 5 s and never stay up for 60 s are auto-restarted at most N times.
C4_RestartsBounded ==
  \A id \in AppIds :
    Has(runningProcesses, id)
      => hist[id].restarts <= maxAttemptsOf(runningProcesses[id].appConfig)

\* C5: once an attempt at time T brought the tracker to maxRestartAttempts,
\* no further auto-restart of that app is made in [T, T + 5 min).
C5_NoRestartInCooldown ==
  [][\A id \in AppIds :
       (hist[id].blockedAt >= 0 /\ now < hist[id].blockedAt + CooldownSecs)
       => hist'[id].restarts = hist[id].restarts]_vars

\* C6: the exit observer of a child killed by POST /api/stop changes no
\* process-table entry, does not touch the restart tracker and triggers no
\* auto-restart.
C6_StoppedChildExitIsNoOp ==
  [][\A c \in children, code \in ExitCodes :
       (c.stopped /\ ChildExit(c, code))
       => /\ runningProcesses' = runningProcesses
          /\ restartTracker' = restartTracker
          /\ pendingRestarts' = pendingRestarts]_vars

\* C7 (as stated): for every app, the key of an interactive run never holds
\* the entry of a scheduled or manual execution.
C7_AllAppsDistinctKeys ==
  \A a \in AppsOf(config) :
    Has(runningProcesses, a.id) => ~runningProcesses[a.id].isSyncProcess

\* C7 (amended): for every app with a scheduleCommand, interactive runs and
\* scheduled executions use different keys: the entry under appId is never
\* the one of a scheduled execution, the entry under appId:sync always is.
C7_HybridDistinctKeys ==
  \A a \in AppsOf(config) :
    a.scheduleCommand
      => /\ Has(runningProcesses, a.id)
              => ~runningProcesses[a.id].isSyncProcess
         /\ Has(runningProcesses, a.id \o ":sync")
              => runningProcesses[a.id \o ":sync"].isSyncProcess

C7_Witness ==
  \E a \in AppsOf(config) :
    /\ a.scheduleCommand
    /\ Has(runningProcesses, a.id)
    /\ Has(runningProcesses, a.id \o ":sync")
    /\ runningProcesses[a.id].status = "running"
    /\ runningProcesses[a.id \o ":sync"].status = "running"


\* ------------------------------------------------------------ port registry
\* C8: the port check answers available exactly when the port is not
\* reserved, no app other than excludeAppId has it in the config, and the
\* system probe did not find it in use.
C8_CheckAvailableIff ==
  resp.op = "check"
    => /\ resp.registryAvailable
            <=> /\ resp.port \notin config.reservedPorts
                /\ ~\E a \in AppsOf(config) :
                      a.port = resp.port /\ a.id # resp.exclude
       /\ resp.available <=> (resp.registryAvailable /\ ~resp.systemInUse)

C8_Witness ==
  /\ resp.op = "check"
  /\ resp.available
  /\ resp.exclude # NoId
  /\ \E a \in AppsOf(config) : a.port = resp.port /\ a.id = resp.exclude

\* the free ports from basePort up to 65535; the smallest one, if any, lies
\* within the first Cardinality(usedPorts) + 1 candidates
FreePorts(cfg, basePort) ==
  LET top == IF basePort + Cardinality(usedPorts(cfg)) < PortLimit
             THEN basePort + Cardinality(usedPorts(cfg)) ELSE PortLimit
  IN {p \in basePort..top : p \notin usedPorts(cfg)}

\* C9: suggest(basePort) returns the smallest port p, basePort <= p <= 65535,
\* that is neither reserved nor the port of an app, and no port only when
\* there is none; 65535 is returned when it is the first free one.
C9_SuggestSmallestFree ==
  resp.op = "suggest"
    => IF FreePorts(config, resp.port) = {}
       THEN resp.suggestedPort = NoPort
       ELSE /\ resp.suggestedPort \in FreePorts(config, resp.port)
            /\ \A p \in FreePorts(config, resp.port) :
                 resp.suggestedPort <= p

\* C10: the config document keeps its invariants: no app's port is
\* reserved, no two apps share a port, app ids are unique.
C10_ConfigInvariants ==
  /\ \A i \in DOMAIN config.apps :
       config.apps[i].port \notin config.reservedPorts
  /\ \A i, j \in DOMAIN config.apps :
       i # j => /\ config.apps[i].port # config.apps[j].port
                /\ config.apps[i].id # config.apps[j].id

C16_ExitRecordsLastRun ==
  [][\A c \in children, code \in ExitCodes :
       (c.kind = "sched" /\ ChildExit(c, code))
       => /\ DOMAIN scheduleState' = DOMAIN scheduleState \cup {c.appId}
          /\ scheduleState'[c.appId].lastRun = now
          /\ scheduleState'[c.appId].lastExitCode = code
          /\ scheduleState'[c.appId].wasManual = c.isManual
          /\ \A other \in DOMAIN scheduleState \ {c.appId} :
               scheduleState'[other] = scheduleState[other]]_vars

C16_Witness ==
  /\ Has(scheduleState, "a") /\ Has(scheduleState, "b")
  /\ scheduleState["a"].wasManual
  /\ scheduleState["a"].lastRun = now /\ now > 0
  /\ scheduleState["a"].lastExitCode = CrashExit

C18_ManualRunPreconditions ==
  [][\A a \in AppsOf(config) :
       ManualRun(a)
       => IF \/ ~a.scheduleEnabled
             \/ /\ Has(runningProcesses, processKey(a))
                /\ runningProcesses[processKey(a)].status = "running"
          THEN UNCHANGED <<runningProcesses, scheduleState, children, nextPid>>
          ELSE /\ \E c \in children' \ children :
                    /\ children' = children \cup {c}
                    /\ c.isManual /\ c.appId = a.id
                    /\ c.key = processKey(a)
                    /\ runningProcesses'[processKey(a)].process = c.pid
               /\ runningProcesses'[processKey(a)].isManual
               /\ runningProcesses'[processKey(a)].status = "running"
               /\ scheduleState' = scheduleState]_vars

\* a manual run started over a finished execution of the same key
C18_Witness ==
  \E a \in AppsOf(config) :
    /\ Has(runningProcesses, processKey(a))
    /\ runningProcesses[processKey(a)].isManual
    /\ runningProcesses[processKey(a)].status = "running"
    /\ Has(scheduleState, a.id)
    /\ \E c \in children : c.isManual /\ c.key = processKey(a)

\* -------------------------------------------------------------- diagnostics
\* the lines of the app that count according to the discount rule: WARN or
\* ERROR, not marked as normal termination, and with no resolved resolution
\* of their error type dated at or after them
DiscountedCount(log, resFile, appName) ==
  {l \in DOMAIN log :
     /\ l.app = appName /\ isFailureLevel(l)
     /\ ~\E i \in DOMAIN resFile :
           /\ resFile[i].app = appName
           /\ resFile[i].disposition = "resolved"
           /\ resFile[i].errorType = lineErrorType(l)
           /\ resFile[i].date >= l.time}

\* C13: pattern analysis counts an entry of error type E at time t only if
\* the resolutions log holds no resolved record for E dated at or after t;
\* when no entry is left to count the recommendation is null.
C13_ResolvedDiscounted ==
  LET a == analyzeLogHistory(logFile, resolutionsFile, DiagApp)
      counted == DiscountedCount(logFile, resolutionsFile, DiagApp)
  IN /\ a.failures = CountIn(logFile, counted)
     /\ a.recentFailures =
          CountIn(logFile,
                  {l \in counted : l.time > now - RecentWindowDays * DaySecs})
     /\ \A t \in {"PORT_IN_USE", "CRASH"} :
          (IF Has(a.errorTypes, t) THEN a.errorTypes[t] ELSE 0)
            = CountIn(logFile, {l \in counted : lineErrorType(l) = t})
     /\ counted = {} => a.recommendation = "none"

\* C14: the recommendation is determined by recentFailures alone: critical
\* with shouldAutoTodo from 6 on, warning without shouldAutoTodo from 3 to 5,
\* none below, whatever the error types of the counted lines.
C14_RecommendationTiers ==
  LET a == analyzeLogHistory(logFile, resolutionsFile, DiagApp)
  IN /\ a.recommendation =
          IF a.recentFailures >= CriticalThreshold THEN "critical"
          ELSE IF a.recentFailures >= WarningThreshold THEN "warning"
          ELSE "none"
     /\ a.shouldAutoTodo <=> a.recentFailures >= CriticalThreshold

ExitMessages == {"Process exited with code", "Scheduled execution completed",
                 "Manual execution completed"}

\* C15: every exit line carries exitCode and normalTermination, true exactly
\* for a normal exit code, and the exit lines of normal exits add nothing to
\* failures, recentFailures or the CRASH count of the analysis.
C15_NormalExitNotCounted ==
  LET exits == {l \in DOMAIN logFile : l.message \in ExitMessages}
      normal == {l \in exits : isNormalExit(l.exitCode)}
      rest == [l \in DOMAIN logFile \ normal |-> logFile[l]]
      a == analyzeLogHistory(logFile, resolutionsFile, DiagApp)
      b == analyzeLogHistory(rest, resolutionsFile, DiagApp)
  IN /\ \A l \in exits :
          /\ l.exitCode # ""
          /\ l.normalTermination =
               IF isNormalExit(l.exitCode) THEN "true" ELSE "false"
     /\ a.failures = b.failures
     /\ a.recentFailures = b.recentFailures
     /\ a.errorTypes = b.errorTypes

\* the ### lines of a file whose text begins with the given words
EntryLines(lines, prefix) ==
  {i \in DOMAIN lines :
     /\ startsWith(lines[i], "###")
     /\ Len(lines[i]) >= 1 + Len(prefix)
     /\ SubSeq(lines[i], 2, 1 + Len(prefix)) = prefix}

\* C12 as stated: for every app and day TODO.md holds at most one entry
\* whose text has the prefix "[day] <AppName>", and the analysis of a start
\* request for an app that already has today's entry leaves TODO.md as it
\* is.
C12_AtMostOnePrefixedEntry ==
  /\ [](\A a \in TodoApps, d \in 0..DiagMaxDays :
          Cardinality(EntryLines(todoFile, <<DateTag(d)>> \o a)) <= 1)
  /\ [][\A a \in TodoApps :
          (StartAnalysis(a) /\ EntryLines(todoFile, <<today>> \o a) # {})
            => todoFile' = todoFile]_vars

\* C12, amended: for every app and day TODO.md holds at most one entry
\* headed exactly "[day] <AppName> - Recurring ..." (the entry of an app
\* whose name continues <AppName> is not counted), and the analysis of a
\* start request for an app that already has today's entry leaves TODO.md
\* as it is.
C12_AtMostOneEntryPerApp ==
  /\ [](\A a \in TodoApps, d \in 0..DiagMaxDays :
          Cardinality(EntryLines(todoFile,
                                 <<DateTag(d)>> \o a \o <<"- Recurring">>))
            <= 1)
  /\ [][\A a \in TodoApps :
          (/\ StartAnalysis(a)
           /\ EntryLines(todoFile, <<today>> \o a \o <<"- Recurring">>)
                # {})
            => todoFile' = todoFile]_vars

\* both apps have today's entry, next to the entry App got on an earlier day
C12_Witness ==
  /\ \A a \in TodoApps :
       EntryLines(todoFile, <<today>> \o a \o <<"- Recurring">>) # {}
  /\ EntryLines(todoFile, <<DateTag(0), "App", "- Recurring">>) # {}
  /\ today # DateTag(0)

\* the items of a file, unchecked items and auto-detected entries, as the
\* bag of their texts
ItemBag(lines) ==
  LET idx == {i \in DOMAIN lines :
                isCheckbox(lines[i]) \/ startsWith(lines[i], "###")}
  IN [t \in {Tail(lines[i]) : i \in idx} |->
        Cardinality({i \in idx : Tail(lines[i]) = t})]

\* the line stands under the ## heading of that title
InSection(lines, title, line) ==
  \E h \in DOMAIN lines, i \in DOMAIN lines :
    /\ isHeading(lines[h], title)
    /\ h < i
    /\ lines[i] = line
    /\ \A j \in (h + 1)..(i - 1) : ~startsWith(lines[j], "##")

SectionOf(action) ==
  IF action = "parking" THEN "Parking Lot" ELSE "Next Session"

ItemText(item) ==
  IF startsWith(item.text, "[Auto]") THEN Tail(item.text) ELSE item.text

\* C19: a triage request of parking and implement actions on items of the
\* file moves items without changing them: the texts of the items of
\* TODO.md are the same before and after (none removed, none altered), and
\* after a request of one action its item stands as "- [ ] <text>" under
\* "## Parking Lot" (parking) or "## Next Session" (implement).
C19_MovePreservesItems ==
  [][\A items \in TriageBatches :
       (/\ ApplyTriage(items)
        /\ \A i \in DOMAIN items : items[i].action # "dontdo")
         => /\ ItemBag(todoFile') = ItemBag(todoFile)
            /\ Len(items) = 1
                 => InSection(todoFile', SectionOf(items[1].action),
                              <<Checkbox>> \o ItemText(items[1]))]_vars

\* the issues of a sequence of resolution records, as a bag
IssueBag(records) ==
  [t \in {records[i].issue : i \in DOMAIN records} |->
     Cardinality({i \in DOMAIN records : records[i].issue = t})]

\* the records a step appends to the resolutions log
Appended ==
  SubSeq(resolutionsFile', Len(resolutionsFile) + 1, Len(resolutionsFile'))

\* C20: after a triage request the items removed from TODO.md and the
\* records appended to the resolutions log agree one to one: nothing is
\* added to the items, every appended record is cancelled, the issues of the
\* appended records are exactly the texts of the removed items, and a
\* request whose first action is dontdo removes the item of that text.
C20_DontDoRemovesAndRecords ==
  [][\A items \in TriageBatches :
       ApplyTriage(items)
         => /\ ItemBag(todoFile') \sqsubseteq ItemBag(todoFile)
            /\ \A i \in DOMAIN Appended :
                 Appended[i].disposition = "cancelled"
            /\ IssueBag(Appended) = ItemBag(todoFile) (-) ItemBag(todoFile')
            /\ items[1].action = "dontdo"
                 => BagIn(ItemText(items[1]),
                          ItemBag(todoFile) (-) ItemBag(todoFile'))]_vars

\* C27: a start request for a key whose entry is running leaves the process
\* table as it is, and a start request never removes or replaces an entry
\* that is starting or restarting: only a terminal entry is dropped.
C27_StartDropsOnlyTerminal ==
  [][\A id \in AppIds, sc \in StartConfigs :
       (/\ StartRequest(id, sc)
        /\ Has(runningProcesses, id)
        /\ runningProcesses[id].status \in {"running", "starting",
                                            "restarting"})
         => runningProcesses' = runningProcesses]_vars

\* C23: an entry goes from starting to running only in the step of the start
\* handler that follows a successful health probe; no observer of the
\* child's output makes that transition.
C23_RunningHasOneWriter ==
  [][(\E k \in Keys :
        /\ Has(runningProcesses, k) /\ Has(runningProcesses', k)
        /\ runningProcesses[k].status = "starting"
        /\ runningProcesses'[k].status = "running")
       => \E r \in inflight : StartPollDone(r, TRUE)]_vars

\* C29: a stop request for a key with no entry, or with an entry that is
\* stopped, failed or completed, is rejected, kills nothing and leaves the
\* process table as it is.
C29_StopOfNotRunningRejected ==
  [][\A id \in Keys, killOk \in BOOLEAN :
       (/\ Stop(id, killOk)
        /\ \/ ~Has(runningProcesses, id)
           \/ runningProcesses[id].status \in Terminal)
         => /\ stopRejected(id)
            /\ runningProcesses' = runningProcesses
            /\ children' = children]_vars

\* C25: a stability timer clears the restart tracker only when the entry
\* under its key is the replacement spawned together with the timer, up
\* since then (running or starting for StabilitySecs); it never clears the
\* tracker because of a process put under the key later.
C25_TimerClearsForOwnReplacement ==
  [][\A t \in stabilityTimers :
       (StabilityTimer(t) /\ restartTracker' # restartTracker)
         => /\ Has(runningProcesses, t.appId)
            /\ runningProcesses[t.appId].status \in {"running", "starting"}
            /\ runningProcesses[t.appId].startTime
                 = t.due - StabilitySecs]_vars

\* C22: a health poll that ends at its deadline without a response changes
\* neither the process table nor the children (nothing is killed, no entry
\* removed or failed), and when the entry is starting at that moment the
\* request is answered with success, status starting and a warning, the
\* entry staying in starting.
C22_HealthTimeoutKeepsStarting ==
  [][\A r \in inflight :
       StartPollDone(r, FALSE)
         => /\ runningProcesses' = runningProcesses
            /\ children' = children
            /\ (Has(runningProcesses, r.id)
                  /\ runningProcesses[r.id].status = "starting")
                 => /\ startPollResponse(r.id, FALSE)
                        = [http |-> 200, success |-> TRUE,
                           status |-> "starting", warning |-> TRUE]
                    /\ runningProcesses'[r.id].status = "starting"]_vars

\* every start request has returned, and an entry is still starting with
\* the child of its start alive: the poll of that start timed out
C22_Witness ==
  /\ inflight = {}
  /\ \E k \in Keys, c \in children :
       /\ Has(runningProcesses, k)
       /\ runningProcesses[k].status = "starting"
       /\ c.kind = "start" /\ c.pid = runningProcesses[k].process
       /\ ~c.stopped

\* ----------------------------------------------------------- start preflight
\* the first check of the fixed order that fails in an environment
FirstFailing(appConfig, retry, env) ==
  IF portInUse(appConfig.port, env.busy) /\ ~(retry /\ env.killOk)
  THEN "port"
  ELSE IF ~env.pathExists THEN "path"
  ELSE IF isNpmCommand(appConfig.command) /\ ~env.packageJson
  THEN "manifest"
  ELSE IF isNpmCommand(appConfig.command) /\ ~env.nodeModules
  THEN "dependencies"
  ELSE "none"

CheckRank(check) ==
  CASE check = "port" -> 1 [] check = "path" -> 2
    [] check = "manifest" -> 3 [] check = "dependencies" -> 4

CheckOfStep(step) ==
  CASE step \in {"port_check", "kill_port_process", "port_info"} -> "port"
    [] step = "path_check" -> "path"
    [] step = "package_json_check" -> "manifest"
    [] step = "node_modules_check" -> "dependencies"

CodeOfCheck(check) ==
  CASE check = "port" -> "QL-PORT-001" [] check = "path" -> "QL-PATH-001"
    [] check = "manifest" -> "QL-NPM-001"
    [] check = "dependencies" -> "QL-MOD-001"

\* C28: the preflight checks run in the order port, path, package manifest,
\* dependency directory; the first one that fails ends the request with a
\* 400 answer carrying that check's support code and a troubleshooting
\* trace that ends at that check (no later check has run), and nothing is
\* spawned and no entry inserted.
C28_PreflightShortCircuits ==
  [][\A r \in inflight, env \in StartEnvs :
       (StartCheck(r, env)
          /\ FirstFailing(r.appConfig, r.retry, env) # "none")
         => LET f == FirstFailing(r.appConfig, r.retry, env)
            IN /\ resp'.http = 400
               /\ resp'.supportCode = CodeOfCheck(f)
               /\ resp'.trace # << >>
               /\ CheckOfStep(resp'.trace[Len(resp'.trace)].step) = f
               /\ \A i \in 1..Len(resp'.trace) :
                    CheckRank(CheckOfStep(resp'.trace[i].step))
                      <= CheckRank(f)
               /\ runningProcesses' = runningProcesses
               /\ children' = children
               /\ nextPid' = nextPid]_vars

\* the available ports above a port, up to the first one that the bound
\* ports cannot all cover: empty exactly when no port above is available,
\* and holding the lowest available one otherwise
AvailableAbove(port, busy) ==
  LET top == IF port + 1 + Cardinality(busy) < PortLimit
             THEN port + 1 + Cardinality(busy) ELSE PortLimit
  IN {p \in (port + 1)..top : ~portInUse(p, busy)}

\* C21: a start whose port is bound by another process, without retry, is
\* answered 400 QL-PORT-001 with canRetry, spawns nothing and inserts no
\* entry; alternativePort is the lowest available port above the requested
\* one and canUseAlternative holds exactly when there is one; a start with
\* overridePort probes the override port and the program it spawns listens
\* on the override port, not on the declared one.
C21_PortConflictOffersAlternative ==
  [][\A r \in inflight, env \in StartEnvs :
       StartCheck(r, env)
         => /\ (portInUse(r.appConfig.port, env.busy) /\ ~r.retry)
                => LET above == AvailableAbove(r.appConfig.port, env.busy)
                   IN /\ resp'.http = 400
                      /\ resp'.supportCode = "QL-PORT-001"
                      /\ resp'.canRetry
                      /\ runningProcesses' = runningProcesses
                      /\ children' = children
                      /\ resp'.canUseAlternative <=> above # {}
                      /\ above # {}
                           => /\ resp'.alternativePort \in above
                              /\ \A p \in above :
                                   resp'.alternativePort <= p
            /\ r.appConfig.port # projectPort(r.appConfig.path)
                => /\ resp'.ok
                       => (~portInUse(r.appConfig.port, env.busy)
                            \/ (r.retry /\ env.killOk))
                   /\ \A c \in children' \ children :
                        listenPort(c) = r.appConfig.port]_vars

\* ------------------------------------------------------------ schedule jobs
ScheduledApps(cfg) ==
  {a \in AppsOf(cfg) : a.schedule.kind # "none" /\ a.scheduleEnabled}

\* C30: after any sequence of config and schedule requests a job is set for
\* an app id exactly when the config holds an app of that id with a schedule
\* and scheduleEnabled (one job per id, the table being keyed by id), and
\* the appConfig the job runs is the app's current one.
C30_JobsFollowConfig ==
  /\ DOMAIN scheduledJobs = {a.id : a \in ScheduledApps(config)}
  /\ \A id \in DOMAIN scheduledJobs :
       scheduledJobs[id] \in AppsOf(config)

\* -------------------------------------------------------------- liveness
\* the entry of the key is a replacement spawned by autoRestartApp, alive
RestartedUp(k) ==
  /\ Has(runningProcesses, k)
  /\ \E c \in children :
       c.kind = "restart" /\ c.pid = runningProcesses[k].process

\* C24: once an auto-restart has spawned a replacement, then, unless the
\* replacement exits or its entry is replaced, the entry eventually becomes
\* running and the status query reports running = true for it.
C24_RestartReachesRunning ==
  \A k \in AppIds :
    RestartedUp(k) ~> (~RestartedUp(k) \/ statusRunning(k))

\* the app has a restart tracker and its entry has been running or starting
\* for 60 s
StableWithTracker(k) ==
  /\ Up(k)
  /\ now - runningProcesses[k].startTime >= StabilitySecs
  /\ Has(restartTracker, k)

\* C26: whenever an app with a restart tracker has been up for at least
\* 60 s, then, unless that run ends, its tracker is eventually cleared,
\* whichever way the run was started.
C26_StableRunClearsTracker ==
  \A k \in AppIds :
    StableWithTracker(k) ~> (~Has(restartTracker, k) \/ ~Up(k))

\* ------------------------------------------------------------ apps.json file
\* the document a save in progress is writing
BeingSaved(file) == parsed(file.text \o file.pending)

\* C31: whatever the store does to apps.json (the start of a save, each
\* write, a crash inside a save), a reader of the file then finds a complete
\* document, and when the file held a complete document before, the one it
\* finds is that document or the one being saved.
C31_NeverPartialFile ==
  [][\/ HandEdit
     \/ appsFile' = appsFile
     \/ /\ parses(appsFile'.text)
        /\ parses(appsFile.text)
             => parsed(appsFile'.text)
                  \in {parsed(appsFile.text), BeingSaved(appsFile')}]_vars

StoredApps(text) ==
  {text[i].app : i \in {j \in DOMAIN text : text[j].k = "app"}}

StoredPorts(text) ==
  {text[i].port : i \in {j \in DOMAIN text : text[j].k = "port"}}

\* C40: a request that finds apps.json unparsable and saves writes a document
\* that still holds every app and every reserved port the file held.
C40_FailedLoadKeepsStored ==
  [][(/\ ~parses(appsFile.text)
      /\ appsFile.pending = << >>
      /\ appsFile'.pending # << >>)
       => /\ StoredApps(appsFile.text)
               \subseteq StoredApps(appsFile'.pending)
          /\ StoredPorts(appsFile.text)
               \subseteq StoredPorts(appsFile'.pending)]_vars

\* ------------------------------------------------------------- sync entries
\* the entry of a scheduled or manual execution that has exited
SyncDone(k) ==
  /\ Has(runningProcesses, k)
  /\ runningProcesses[k].isSyncProcess
  /\ runningProcesses[k].status \in {"completed", "failed"}

\* C33: every sync entry that has reached completed or failed is eventually
\* removed from the process table, without a stop being asked for.
C33_SyncEntriesAgeOut ==
  \A k \in Keys : SyncDone(k) ~> ~Has(runningProcesses, k)

\* ---------------------------------------------------------------- installs
InstallsOf(id) == {c \in children : c.kind = "install" /\ c.key = id}

\* C34: per app id at most one install runs at a time, and while an install
\* runs the record of its id is its own and says running: no expiry timer
\* of an earlier install has removed it.
C34_InstallRecordOutlivesRun ==
  \A id \in InstallIds :
    /\ Cardinality(InstallsOf(id)) <= 1
    /\ \A c \in InstallsOf(id) :
         /\ Has(ongoingInstalls, id)
         /\ ongoingInstalls[id].process = c.pid
         /\ ongoingInstalls[id].status = "running"

\* -------------------------------------------------------------- resolutions
\* index of the first unchecked item whose line contains the text, or 0
FirstMatch(lines, todoText) ==
  LET hits == {i \in DOMAIN lines :
                 isCheckbox(lines[i]) /\ Includes(lines[i], todoText)}
  IN IF hits = {} THEN 0
     ELSE CHOOSE i \in hits : \A j \in hits : i <= j

\* C35: POST /api/resolutions appends one record to the resolutions log and
\* removes from TODO.md the first unchecked item containing the issue text,
\* and no other line.
C35_ResolutionDeletesFirstMatch ==
  [][RecordResolution(<<"App">>, <<"fix", "bug">>, "PORT_IN_USE", "resolved")
       => /\ Len(resolutionsFile') = Len(resolutionsFile) + 1
          /\ todoFile' =
               IF FirstMatch(todoFile, <<"fix", "bug">>) = 0 THEN todoFile
               ELSE RemoveAt(todoFile,
                             FirstMatch(todoFile, <<"fix", "bug">>))]_vars

\* ------------------------------------------------------- restart snapshot
DocPorts(id) ==
  {config.apps[i].port :
     i \in {j \in DOMAIN config.apps : config.apps[j].id = id}}

\* C32: every process of an app, restarted ones included, its table entry
\* and every restart under way hold the configuration of the start request
\* (command, path, port with the override, autoRestart, maxRestartAttempts);
\* edits of the config document change none of them, and the tracker never
\* counts past the maxRestartAttempts of the start request.
C32_RestartUsesStartSnapshot ==
  /\ \A c \in children : c.appConfig = SnapConfig(c.key)
  /\ \A p \in pendingRestarts : p.appConfig = SnapConfig(p.appId)
  /\ \A k \in DOMAIN runningProcesses :
       runningProcesses[k].appConfig = SnapConfig(k)
  /\ \A k \in DOMAIN restartTracker :
       restartTracker[k].attempts <= SnapConfig(k).maxRestartAttempts

\* a restarted process is up, and the document no longer holds the port its
\* app was started with (edited or the app deleted before this restart)
C32_Witness ==
  \E c \in children :
    /\ c.kind = "restart"
    /\ Has(runningProcesses, c.key)
    /\ runningProcesses[c.key].process = c.pid
    /\ c.appConfig.port = 5174
    /\ DocPorts(c.key) \subseteq SnapEditPorts

\* C36: no process is started on a port the registry reserves or assigns to
\* another app: the port of every process spawned by POST /api/start is
\* available to its app in the config document.
C36_StartHonoursRegistry ==
  \A c \in children :
    c.kind = "start"
      => checkPortAvailability(config, c.appConfig.port, c.key).available

\* ------------------------------------------------------ children and entries
\* the live children of a key that no stop has killed
LiveOf(k) == {c \in children : c.key = k /\ ~c.stopped}

Owned(c) ==
  Has(runningProcesses, c.key) /\ runningProcesses[c.key].process = c.pid

NoOrphans ==
  \A k \in Keys :
    /\ Cardinality(LiveOf(k)) <= 1
    /\ \A c \in LiveOf(k) : Owned(c)

\* the steps of POST /api/start and of autoRestartApp that drop or insert an
\* entry or spawn a child
SpawnSteps ==
  \/ \E id \in AppIds, sc \in StartConfigs : StartRequest(id, sc)
  \/ \E r \in inflight, ok \in BOOLEAN : StartPreflight(r, ok)
  \/ \E p \in pendingRestarts : RestartSpawn(p)

\* C37: starts and auto-restarts leave no orphaned child: when every key has
\* at most one live child and each live child is the process of its key's
\* entry, this still holds after a start request is accepted, after it has
\* spawned, and after an auto-restart has spawned.
C37_NoOrphanedChildren ==
  [][(NoOrphans /\ SpawnSteps) => NoOrphans']_vars

\* the entry of the child's key belongs to a newer spawn
Replaced(c) ==
  Has(runningProcesses, c.key) /\ runningProcesses[c.key].process # c.pid

\* C38: the exit of a child whose entry has been replaced by a newer spawn
\* leaves the new entry as it is (status, exitCode) and starts no
\* auto-restart: table, tracker and pending restarts are unchanged.
C38_ExitTouchesOwnEntryOnly ==
  [][\A c \in children, code \in ExitCodes :
       (Replaced(c) /\ ChildExit(c, code))
         => /\ runningProcesses' = runningProcesses
            /\ restartTracker' = restartTracker
            /\ pendingRestarts' = pendingRestarts]_vars

\* ------------------------------------------------------------ stop is final
\* the key has no entry and no start request under way: its entry was
\* removed by a stop and no start has been accepted since
StoppedQuiet(k) ==
  /\ ~Has(runningProcesses, k)
  /\ \A r \in inflight : r.id # k

\* C39: after a successful stop of a key and until a new start is
\* requested, no process is spawned and no entry inserted for the key; an
\* auto-restart pending when the stop was made does not spawn.
C39_StopIsFinal ==
  [][\A k \in Keys :
       StoppedQuiet(k)
         => /\ ~Has(runningProcesses', k) \/ (\E r \in inflight' : r.id = k)
            /\ \A c \in children' \ children : c.key # k]_vars

====
